---- MODULE Spec2Model ----
(***************************************************************************)
(* A model of huff.h (single-header static Huffman file codec):            *)
(* huffman_encode and huffman_decode with the helpers they call            *)
(* (frequency counter, heap, tree builder, code collection, canonical      *)
(* codes, tree rebuild, container header, bit writer, bit reader, decoder  *)
(* lookup table and decode loop).                                          *)
(*                                                                         *)
(* Representation.  Byte values are the integers 0..255.  A uint64_t that *)
(* can exceed TLC's integers (the writer's accumulator, the canonical code *)
(* counter) is the set of the positions of its 1 bits, a subset of 0..63.  *)
(* A zero-initialised array indexed by symbol (freq, lengths, codes) is a  *)
(* function on the symbols whose entry is not zero; TGet reads it at any   *)
(* symbol.  A file is [len, nz]: its length and its non-zero bytes by      *)
(* offset; FByte reads it at any offset below len.                         *)
(***************************************************************************)
EXTENDS Integers, Sequences, FiniteSets, TLC

----
\* Program constants (huff.h)

HUFF_MAX_SYMBOLS == 256
HUFF_MAX_CODE_BITS == 256
HUFF_MAX_NODES == HUFF_MAX_SYMBOLS * 2
HUFF_IO_BUFFER_CAP == 65536
HUFF_DEC_TABLE_BITS == 12
HUFF_DEC_TABLE_SIZE == 2 ^ HUFF_DEC_TABLE_BITS
\* "HUF2"
HUFF_MAGIC == <<72, 85, 70, 50>>
\* width of the uint64_t accumulators and code counters
U64_BITS == 64
\* the worker arrays threads[64], args[64]
MAX_THREADS == 64
\* magic (4) + original_size (8) + lengths (HUFF_MAX_SYMBOLS)
HeaderSize == 4 + 8 + HUFF_MAX_SYMBOLS

----
\* Bounds of the model

\* short inputs: every byte sequence over Alphabet of length 0..MaxLen
MaxLen == 3
\* long inputs: every 3-byte pattern over Alphabet repeated LongReps times
\* (66 symbols, enough to fill the 64-bit accumulator)
LongReps == 22
\* sysconf(_SC_NPROCESSORS_ONLN) answers 1..MaxCores
MaxCores == 2
\* The source counts single-threaded below 1 MiB (size < 1024 * 1024); the
\* model scales this limit down so that inputs within the bounds reach the
\* multi-worker path.
SmallFileLimit == 2
\* a tampered length byte takes a value in 0..MaxForgeLen, or LongCodeLen
MaxForgeLen == 2
\* mid inputs: every 3-byte pattern over Alphabet repeated MidReps times
MidReps == 3
\* two calls overlap on inputs of at most OverlapLen bytes
OverlapLen == 2
MaxLeaves == 5
MaxWeight == 2
\* the bit writer alone is run on every sequence of 1..MaxSymbols symbols
MaxSymbols == 3
\* the lookup table is built for the histograms 1, 1, 2, 3, 5, ... of 2..MaxFib
\* symbols (codes of up to MaxFib - 1 bits), for the uniform histograms of
\* 2..MaxUniform symbols and for every histogram of counts 0, 1 and MaxWeight
\* over MaxMixed symbols
MaxFib == 15
MaxUniform == 9
MaxMixed == 3
\* the decode loop alone is run for original_size 1..MaxOut on every body of
\* 0..MaxBody bytes
MaxOut == 3
MaxBody == 2
\* the symbols of the inputs of OptimalSpec are 0 .. MaxPresent - 1
MaxPresent == 4
\* a code length above the 64 bits of the canonical code counter
LongCodeLen == U64_BITS + 1

\* the byte values inputs are made of
Alphabet == {0, 65, 255}

Symbols == 0 .. (HUFF_MAX_SYMBOLS - 1)

\* The loops "for (i = 0; i < HUFF_MAX_SYMBOLS; ++i) { if (t[i] == 0) continue;
\* ... }" go from one non-zero entry to the next: the first index >= from with
\* t[i] # 0, or HUFF_MAX_SYMBOLS when there is none.
NextNonZero(t, from) ==
  LET c == {i \in DOMAIN t : i >= from} IN
  IF c = {} THEN HUFF_MAX_SYMBOLS ELSE CHOOSE i \in c : \A k \in c : i <= k

\* Arrays indexed by symbol, zero except on DOMAIN t
NoTable == [s \in {} |-> 0]
TGet(t, s) == IF s \in DOMAIN t THEN t[s] ELSE 0
TSet(t, s, v) ==
  IF v = 0 THEN [x \in DOMAIN t \ {s} |-> t[x]]
  ELSE [x \in DOMAIN t \cup {s} |-> IF x = s THEN v ELSE t[x]]

\* Files
EmptyFile == [len |-> 0, nz |-> NoTable]
FByte(f, p) == IF p \in DOMAIN f.nz THEN f.nz[p] ELSE 0
FAppend(f, bytes) ==
  [len |-> f.len + Len(bytes),
   nz |-> [p \in DOMAIN f.nz \cup
                 {f.len + k - 1 : k \in {j \in 1..Len(bytes) : bytes[j] # 0}}
           |-> IF p < f.len THEN f.nz[p] ELSE bytes[p - f.len + 1]]]
\* the n bytes at offsets p .. p+n-1
FRead(f, p, n) == [k \in 1..n |-> FByte(f, p + k - 1)]
\* the file cut to its first n bytes
FTruncate(f, n) == [len |-> n, nz |-> [p \in {q \in DOMAIN f.nz : q < n} |-> f.nz[p]]]
\* the file with the byte at offset p replaced by v
FSet(f, p, v) == [len |-> f.len, nz |-> TSet(f.nz, p, v)]

----
\* 64-bit words: the set of the positions of the 1 bits

U64Idx == 0 .. (U64_BITS - 1)

Zero64 == {}

\* x | (y << n), truncated to 64 bits
OrShl(x, y, n) == x \cup {k + n : k \in {j \in y : j + n < U64_BITS}}

\* x >> n
Shr(x, n) == {k - n : k \in {j \in x : j >= n}}

\* (uint8_t)(x >> (8 * j))
RECURSIVE ByteFrom(_, _, _)
ByteFrom(x, j, i) ==
  IF i = 8 THEN 0
  ELSE (IF 8 * j + i \in x THEN 2 ^ i ELSE 0) + ByteFrom(x, j, i + 1)

ByteOf(x, j) == ByteFrom(x, j, 0)

\* the 8 bytes of x, little endian
Bytes8(x) == [j \in 1..8 |-> ByteOf(x, j - 1)]

\* (x + 2^i) mod 2^64
RECURSIVE AddBit(_, _)
AddBit(x, i) ==
  IF i >= U64_BITS THEN x
  ELSE IF i \in x THEN AddBit(x \ {i}, i + 1)
  ELSE x \cup {i}

\* (x + k) mod 2^64 for a natural k below 2^16, bit i of k upwards
RECURSIVE AddFrom(_, _, _)
AddFrom(x, k, i) ==
  IF i = 16 THEN x
  ELSE AddFrom(IF (k \div (2 ^ i)) % 2 = 1 THEN AddBit(x, i) ELSE x, k, i + 1)

Add64(x, k) == AddFrom(x, k, 0)

\* (x << 1) mod 2^64
Shl1(x) == {k + 1 : k \in {j \in x : j + 1 < U64_BITS}}

----
\* Heap (HuffHeap: data[] holds node indices, nodes[] the weights)
\* nodes is a sequence: node index i (0-based) is nodes[i + 1];
\* heap is the sequence data[0 .. size-1].

NodeAt(nodes, i) == nodes[i + 1]

\* variant of _huff_heap_less: the weights alone, no tie-break on the index
HeapLessNoTie(nodes, a, b) ==
  NodeAt(nodes, a).weight < NodeAt(nodes, b).weight

_huff_heap_less(nodes, a, b) ==
  IF NodeAt(nodes, a).weight < NodeAt(nodes, b).weight THEN TRUE
  ELSE IF NodeAt(nodes, a).weight > NodeAt(nodes, b).weight THEN FALSE
  ELSE a < b

_huff_heap_swap(heap, i, j) ==
  [heap EXCEPT ![i + 1] = heap[j + 1], ![j + 1] = heap[i + 1]]

RECURSIVE SiftUp(_, _, _)
SiftUp(nodes, heap, i) ==
  IF i = 0 THEN heap
  ELSE LET parent == (i - 1) \div 2 IN
       IF ~_huff_heap_less(nodes, heap[i + 1], heap[parent + 1]) THEN heap
       ELSE SiftUp(nodes, _huff_heap_swap(heap, i, parent), parent)

\* variant of _huff_heap_push: the new entry stays in the last slot
HeapPushNoSift(nodes, heap, index) == Append(heap, index)

\* the heap after a successful push (the caller tests for a full heap)
_huff_heap_push(nodes, heap, index) ==
  SiftUp(nodes, Append(heap, index), Len(heap))

RECURSIVE SiftDown(_, _, _)
SiftDown(nodes, heap, i) ==
  LET size == Len(heap)
      left == i * 2 + 1
      right == i * 2 + 2
      s1 == IF left < size /\ _huff_heap_less(nodes, heap[left + 1], heap[i + 1])
            THEN left ELSE i
      smallest == IF right < size
                     /\ _huff_heap_less(nodes, heap[right + 1], heap[s1 + 1])
                  THEN right ELSE s1
  IN IF smallest = i THEN heap
     ELSE SiftDown(nodes, _huff_heap_swap(heap, i, smallest), smallest)

\* variant of _huff_heap_pop: the last entry is dropped and not moved to the top
HeapPopKeepTop(nodes, heap) ==
  IF Len(heap) = 0 THEN <<-1, heap>>
  ELSE <<heap[1], SubSeq(heap, 1, Len(heap) - 1)>>

\* <<popped index (-1 on an empty heap), heap afterwards>>
_huff_heap_pop(nodes, heap) ==
  IF Len(heap) = 0 THEN <<-1, heap>>
  ELSE LET size == Len(heap) - 1 IN
       IF size > 0
       THEN <<heap[1],
              SiftDown(nodes, <<heap[size + 1]>> \o SubSeq(heap, 2, size), 0)>>
       ELSE <<heap[1], <<>>>>

----
\* Tree builder

Leaf(w, s) == [weight |-> w, left |-> -1, right |-> -1, symbol |-> s]

\* _huff_build_tree, first loop, the iteration for symbol on the state
\* [ok, nodes, heap]; ok is FALSE once the function has returned -1
LeafStep(freq, symbol, st) ==
  IF ~st.ok \/ TGet(freq, symbol) = 0 THEN st
  ELSE IF Len(st.nodes) >= HUFF_MAX_NODES \/ Len(st.heap) >= HUFF_MAX_NODES
       THEN [st EXCEPT !.ok = FALSE]
  ELSE LET n2 == Append(st.nodes, Leaf(freq[symbol], symbol)) IN
       [ok |-> TRUE, nodes |-> n2,
        heap |-> _huff_heap_push(n2, st.heap, Len(st.nodes))]

\* the iterations for the symbols lo .. hi in ascending order (the range is
\* halved, and a range without a non-zero frequency changes nothing)
RECURSIVE LeafLoop(_, _, _, _)
LeafLoop(freq, lo, hi, st) ==
  IF {i \in DOMAIN freq : lo <= i /\ i <= hi} = {} THEN st
  ELSE IF lo = hi THEN LeafStep(freq, lo, st)
  ELSE LET mid == (lo + hi) \div 2 IN
       CHOOSE r \in {LeafLoop(freq, mid + 1, hi, half) :
                       half \in {LeafLoop(freq, lo, mid, st)}} : TRUE

\* _huff_build_tree, first loop: one leaf per symbol with freq > 0, pushed in
\* ascending symbol order.  Yields [ok, nodes, heap].
InitLeaves(freq, from, nodes, heap) ==
  LeafLoop(freq, from, HUFF_MAX_SYMBOLS - 1,
           [ok |-> TRUE, nodes |-> nodes, heap |-> heap])

\* _huff_build_tree, one iteration of the merge loop.  Yields [ok, nodes, heap].
MergeStep(nodes, heap) ==
  LET p1 == _huff_heap_pop(nodes, heap)
      a == p1[1]
      p2 == _huff_heap_pop(nodes, p1[2])
      b == p2[1]
      count == Len(nodes)
  IN IF a < 0 \/ b < 0 \/ count >= HUFF_MAX_NODES \/ Len(p2[2]) >= HUFF_MAX_NODES
     THEN [ok |-> FALSE, nodes |-> nodes, heap |-> p2[2]]
     ELSE LET n2 == Append(nodes,
                      [weight |-> NodeAt(nodes, a).weight + NodeAt(nodes, b).weight,
                       left |-> a, right |-> b, symbol |-> -1])
          IN [ok |-> TRUE, nodes |-> n2, heap |-> _huff_heap_push(n2, p2[2], count)]

\* the merge loop to its end: [ok, nodes, root]
RECURSIVE MergeAll(_, _)
MergeAll(nodes, heap) ==
  IF Len(heap) <= 1
  THEN [ok |-> Len(heap) = 1, nodes |-> nodes,
        root |-> IF Len(heap) = 1 THEN heap[1] ELSE -1]
  ELSE LET r == MergeStep(nodes, heap) IN
       IF ~r.ok THEN [ok |-> FALSE, nodes |-> r.nodes, root |-> -1]
       ELSE MergeAll(r.nodes, r.heap)

\* _huff_build_tree as one call: [ok, nodes, root]; ok = FALSE is the -1 return
_huff_build_tree(freq) ==
  LET r == InitLeaves(freq, 0, <<>>, <<>>) IN
  IF ~r.ok \/ Len(r.nodes) = 0 THEN [ok |-> FALSE, nodes |-> r.nodes, root |-> -1]
  ELSE MergeAll(r.nodes, r.heap)

----
\* Codes.  A HuffCode is [bit_count, bits]: bits[j + 1] is bit j of the code
\* (bit (j & 7) of byte (j >> 3)); the bits at and above bit_count are zero in
\* the source and are not kept.

EmptyCode == [bit_count |-> 0, bits |-> <<>>]
NoCodes == [s \in {} |-> EmptyCode]
CodeOf(codes, s) == IF s \in DOMAIN codes THEN codes[s] ELSE EmptyCode
SetCode(codes, s, c) == (s :> c) @@ codes

\* variant of LeafCode: no 1-bit code for a leaf that is the root
LeafCodeNoDummy(path) == [bit_count |-> Len(path), bits |-> path]

\* the code stored at a leaf: the path, or the 1-bit code 0 when the leaf is
\* the root
LeafCode(path) ==
  IF Len(path) = 0 THEN [bit_count |-> 1, bits |-> <<0>>]
  ELSE [bit_count |-> Len(path), bits |-> path]

RECURSIVE _huff_collect_codes_rec(_, _, _, _)
_huff_collect_codes_rec(nodes, node_index, codes, path) ==
  LET node == NodeAt(nodes, node_index)
  IN IF node.left < 0 /\ node.right < 0
     THEN SetCode(codes, node.symbol, LeafCode(path))
     ELSE CHOOSE r \in
            {IF node.right >= 0
             THEN _huff_collect_codes_rec(nodes, node.right, c1, Append(path, 1))
             ELSE c1 :
               c1 \in {IF node.left >= 0
                       THEN _huff_collect_codes_rec(nodes, node.left, codes,
                                                    Append(path, 0))
                       ELSE codes}} : TRUE

_huff_collect_codes(nodes, root) ==
  _huff_collect_codes_rec(nodes, root, NoCodes, <<>>)

----
\* Canonical codes

BlCount(lengths, l) ==
  IF l = 0 THEN 0 ELSE Cardinality({i \in DOMAIN lengths : lengths[i] = l})

MaxLength(lengths) ==
  LET used == {lengths[i] : i \in DOMAIN lengths} \cup {0} IN
  CHOOSE m \in used : \A l \in used : l <= m

\* One iteration of the loop
\* "code = (code + bl_count[bits - 1]) << 1; next_code[bits] = code";
\* st is [code, next_code], next_code holding the entries 1 .. bits - 1.
NextCodeStep(lengths, bits, st) ==
  LET c == Shl1(Add64(st.code, BlCount(lengths, bits - 1))) IN
  [code |-> c, next_code |-> Append(st.next_code, c)]

\* The iterations bits = lo .. hi in ascending order.  The range is halved so
\* that the evaluation does not nest once per iteration, and the state after
\* the first half is bound to a value before the second half starts.
RECURSIVE NextCodeRange(_, _, _, _)
NextCodeRange(lengths, lo, hi, st) ==
  IF lo > hi THEN st
  ELSE IF lo = hi THEN NextCodeStep(lengths, lo, st)
  ELSE LET mid == (lo + hi) \div 2 IN
       CHOOSE r \in {NextCodeRange(lengths, mid + 1, hi, half) :
                       half \in {NextCodeRange(lengths, lo, mid, st)}} : TRUE

\* next_code[1 .. maxbits].  The source runs the loop to HUFF_MAX_CODE_BITS;
\* the entries above the longest length present are never read and are not
\* computed here.
NextCode(lengths, maxbits) ==
  NextCodeRange(lengths, 1, maxbits,
                [code |-> Zero64, next_code |-> <<>>]).next_code

\* The outcomes of "c >> n" for n >= 64 (undefined in C): the hardware shift
\* that takes the count modulo 64, or a result of 0.
ShiftUB == {"mod64", "zero"}

\* (c >> sh) & 1
ShiftedBit(c, sh, ub) ==
  IF sh < U64_BITS THEN (IF sh \in c THEN 1 ELSE 0)
  ELSE IF ub = "mod64" THEN (IF sh % U64_BITS \in c THEN 1 ELSE 0) ELSE 0

\* variant of StoredBits: the code value is stored without the reversal
StoredBitsForward(c, len, ub) == [j \in 1..len |-> ShiftedBit(c, j - 1, ub)]

\* the inner loop over j: bit j of the stored code is bit (len - 1 - j) of c
StoredBits(c, len, ub) == [j \in 1..len |-> ShiftedBit(c, len - j, ub)]

\* the second loop of _huff_make_canonical, symbols i .. 255 in ascending order
\* the third loop, the iteration for symbol i on the state [next_code, codes]
CanonStep(lengths, i, st, ub) ==
  IF i \notin DOMAIN lengths THEN st
  ELSE LET len == lengths[i] IN
       [next_code |-> [st.next_code EXCEPT ![len] = Add64(st.next_code[len], 1)],
        codes |-> SetCode(st.codes, i,
                    [bit_count |-> len,
                     bits |-> StoredBits(st.next_code[len], len, ub)])]

\* the iterations for the symbols lo .. hi in ascending order (the range is
\* halved, and a range without a non-zero length changes nothing)
RECURSIVE CanonRange(_, _, _, _, _)
CanonRange(lengths, lo, hi, st, ub) ==
  IF {i \in DOMAIN lengths : lo <= i /\ i <= hi} = {} THEN st
  ELSE IF lo = hi THEN CanonStep(lengths, lo, st, ub)
  ELSE LET mid == (lo + hi) \div 2 IN
       CHOOSE r \in {CanonRange(lengths, mid + 1, hi, half, ub) :
                       half \in {CanonRange(lengths, lo, mid, st, ub)}} : TRUE

CanonAssign(lengths, from, next_code, codes, ub) ==
  CanonRange(lengths, from, HUFF_MAX_SYMBOLS - 1,
             [next_code |-> next_code, codes |-> codes], ub).codes

_huff_make_canonical(lengths, ub) ==
  CanonAssign(lengths, 0,
              NextCode(lengths, MaxLength(lengths)),
              NoCodes, ub)

----
\* Tree rebuilt from the codes (decoder)

NewNode == [weight |-> 0, left |-> -1, right |-> -1, symbol |-> -1]

\* the walk of one code from bit j on; yields [ok, nodes]
RECURSIVE RebuildInsert(_, _, _, _, _)
RebuildInsert(nodes, code, j, current, sym) ==
  IF j = code.bit_count
  THEN [ok |-> TRUE, nodes |-> [nodes EXCEPT ![current + 1].symbol = sym]]
  ELSE LET bit == code.bits[j + 1]
           child == IF bit = 0 THEN NodeAt(nodes, current).left
                    ELSE NodeAt(nodes, current).right
           count == Len(nodes)
       IN IF child = -1
          THEN IF count >= HUFF_MAX_NODES THEN [ok |-> FALSE, nodes |-> nodes]
               ELSE RebuildInsert(
                      Append(IF bit = 0
                             THEN [nodes EXCEPT ![current + 1].left = count]
                             ELSE [nodes EXCEPT ![current + 1].right = count],
                             NewNode),
                      code, j + 1, count, sym)
          ELSE RebuildInsert(nodes, code, j + 1, child, sym)

RECURSIVE RebuildRec(_, _, _)
RebuildRec(codes, from, nodes) ==
  LET i == NextNonZero(codes, from) IN
  IF i = HUFF_MAX_SYMBOLS THEN [ok |-> TRUE, nodes |-> nodes]
  ELSE LET r == RebuildInsert(nodes, codes[i], 0, 0, i) IN
       IF r.ok THEN RebuildRec(codes, i + 1, r.nodes) ELSE r

\* [ok, nodes]; ok = FALSE is the -1 return, the root is node 0
_huff_rebuild_tree(codes) == RebuildRec(codes, 0, <<NewNode>>)

----
\* Container header

\* variant of U64Bytes: original_size written in 4 bytes
U64Bytes4(n) == [k \in 1..4 |-> (n \div (256 ^ (k - 1))) % 256]

\* the 8 bytes of a uint64_t as fwrite stores them (little endian); the
\* model's sizes are below 2^31, so bytes 4..7 are 0
U64Bytes(n) ==
  [k \in 1..8 |-> IF k <= 4 THEN (n \div (256 ^ (k - 1))) % 256 ELSE 0]

\* the value fread puts in a uint64_t (files of the model keep bytes 4..7 at 0)
U64Value(b) == b[1] + 256 * b[2] + 65536 * b[3] + 16777216 * b[4]

LengthBytes(lengths) == [k \in 1..HUFF_MAX_SYMBOLS |-> TGet(lengths, k - 1)]

\* variant of _huff_write_header: the size field left at 0
WriteHeaderNoSize(original_size, lengths) ==
  HUFF_MAGIC \o U64Bytes(0) \o LengthBytes(lengths)

\* the bytes _huff_write_header appends to the file
_huff_write_header(original_size, lengths) ==
  HUFF_MAGIC \o U64Bytes(original_size) \o LengthBytes(lengths)

HeaderFields(file) ==
  [ok |-> TRUE,
   original_size |-> U64Value(FRead(file, 4, 8)),
   lengths |-> [s \in {x \in Symbols : FByte(file, 12 + x) # 0}
                |-> FByte(file, 12 + s)]]

NoHeader == [ok |-> FALSE, original_size |-> 0, lengths |-> NoTable]

\* variant of _huff_read_header: the magic is not compared
ReadHeaderNoMagic(file) ==
  IF file.len < HeaderSize THEN NoHeader ELSE HeaderFields(file)

\* [ok, original_size, lengths]; a short read of any field fails
_huff_read_header(file) ==
  IF file.len < 4 \/ FRead(file, 0, 4) # HUFF_MAGIC \/ file.len < HeaderSize
  THEN NoHeader
  ELSE HeaderFields(file)

----
\* Frequency counting

ZeroFreq == NoTable

\* args->freq[b]++
Inc(f, b) == TSet(f, b, TGet(f, b) + 1)

\* the eight increments of one iteration of the unrolled loop, at offset p
Block8(data, p, f) ==
  Inc(Inc(Inc(Inc(Inc(Inc(Inc(Inc(f, data[p + 1]), data[p + 2]), data[p + 3]),
    data[p + 4]), data[p + 5]), data[p + 6]), data[p + 7]), data[p + 8])

\* "for (; i + 8 <= args->size; i += 8)"
\* (the test of DOMAIN f, always true, makes TLC evaluate f at every iteration
\* instead of building one nested expression for the whole loop)
RECURSIVE CountBlocks(_, _, _, _, _)
CountBlocks(data, base, i, n, f) ==
  IF i + 8 <= n /\ DOMAIN f \subseteq Symbols
  THEN CountBlocks(data, base, i + 8, n, Block8(data, base + i, f))
  ELSE f

\* "for (; i < args->size; ++i)"
RECURSIVE CountTail(_, _, _, _, _)
CountTail(data, base, i, n, f) ==
  IF i < n THEN CountTail(data, base, i + 1, n, Inc(f, data[base + i + 1]))
  ELSE f

\* variant of _huff_freq_worker: the bytes after the last block of 8 are skipped
FreqWorkerNoTail(data, base, n) == CountBlocks(data, base, 0, n, ZeroFreq)

\* the histogram args->freq when the worker returns: memset, the loop over
\* blocks of 8 bytes, the loop over the remaining bytes
_huff_freq_worker(data, base, n) ==
  CountTail(data, base, (n \div 8) * 8, n, CountBlocks(data, base, 0, n, ZeroFreq))

\* variant of ChunkSize: the last worker does not take the remainder
ChunkSizeNoRest(n, cores, i) == n \div cores

\* args[i].size
ChunkSize(n, cores, i) ==
  IF i = cores - 1 THEN n - i * (n \div cores)
  ELSE n \div cores

\* args[i].data - data
ChunkBase(n, cores, i) == i * (n \div cores)

----
\* Bit writer of huffman_encode.  A writer state is
\* [bit_buffer, bit_count, io, file]: the accumulator, the bytes staged in
\* io_buffer[0 .. io_pos-1] and the bytes already written to the output file.

\* FastHuffCode: len = -1 for codes longer than 64 bits (bits is then unset)
FastCode(code) ==
  IF code.bit_count > U64_BITS THEN [len |-> -1, bits |-> Zero64]
  ELSE [len |-> code.bit_count,
        bits |-> {b \in 0 .. (code.bit_count - 1) : code.bits[b + 1] = 1}]

\* the 8-byte little-endian store of the accumulator, after the fwrite of a
\* staging buffer that has no room for it
PutWord(st, w) ==
  IF Len(st.io) + 8 > HUFF_IO_BUFFER_CAP
  THEN [st EXCEPT !.file = FAppend(st.file, st.io), !.io = Bytes8(w)]
  ELSE [st EXCEPT !.io = st.io \o Bytes8(w)]

\* variant of SlowWrite: the bits of the code are taken from the last down
RECURSIVE SlowWriteHighFirst(_, _, _)
SlowWriteHighFirst(st, code, b) ==
  IF b >= code.bit_count THEN st
  ELSE LET bb == IF code.bits[code.bit_count - b] = 1
                 THEN st.bit_buffer \cup {st.bit_count}
                 ELSE st.bit_buffer
           bc == st.bit_count + 1
       IN IF bc = U64_BITS
          THEN SlowWriteHighFirst([PutWord(st, bb) EXCEPT !.bit_buffer = Zero64,
                                                          !.bit_count = 0],
                                  code, b + 1)
          ELSE SlowWriteHighFirst([st EXCEPT !.bit_buffer = bb, !.bit_count = bc],
                                  code, b + 1)

\* bit-at-a-time fallback for a code longer than 64 bits, from bit b on
RECURSIVE SlowWrite(_, _, _)
SlowWrite(st, code, b) ==
  IF b >= code.bit_count THEN st
  ELSE LET bb == IF code.bits[b + 1] = 1
                 THEN st.bit_buffer \cup {st.bit_count}
                 ELSE st.bit_buffer
           bc == st.bit_count + 1
       IN IF bc = U64_BITS
          THEN SlowWrite([PutWord(st, bb) EXCEPT !.bit_buffer = Zero64,
                                                 !.bit_count = 0], code, b + 1)
          ELSE SlowWrite([st EXCEPT !.bit_buffer = bb, !.bit_count = bc],
                         code, b + 1)

\* variant of WriteSymbol: the bits that do not fit the accumulator are lost
WriteSymbolNoSpill(st, code) ==
  LET fc == FastCode(code) IN
  [st EXCEPT !.bit_buffer = OrShl(st.bit_buffer, fc.bits, st.bit_count),
             !.bit_count = st.bit_count + fc.len]

\* variant of WriteSymbol: an accumulator that a code fills to exactly 64 bits
\* is not flushed at once
WriteSymbolLateFlush(st, code) ==
  LET fc == FastCode(code) IN
  IF fc.len > 0
  THEN IF st.bit_count + fc.len <= U64_BITS
       THEN [st EXCEPT !.bit_buffer = OrShl(st.bit_buffer, fc.bits, st.bit_count),
                       !.bit_count = st.bit_count + fc.len]
       ELSE LET bb == OrShl(st.bit_buffer, fc.bits, st.bit_count)
                written == U64_BITS - st.bit_count
            IN [PutWord(st, bb) EXCEPT !.bit_buffer = Shr(fc.bits, written),
                                       !.bit_count = fc.len - written]
  ELSE SlowWrite(st, code, 0)

\* one iteration of the loop over the input bytes
WriteSymbol(st, code) ==
  LET fc == FastCode(code) IN
  IF fc.len > 0
  THEN IF st.bit_count + fc.len <= U64_BITS
       THEN LET bb == OrShl(st.bit_buffer, fc.bits, st.bit_count)
                bc == st.bit_count + fc.len
            IN IF bc = U64_BITS
               THEN [PutWord(st, bb) EXCEPT !.bit_buffer = Zero64, !.bit_count = 0]
               ELSE [st EXCEPT !.bit_buffer = bb, !.bit_count = bc]
       ELSE LET bb == OrShl(st.bit_buffer, fc.bits, st.bit_count)
                written == U64_BITS - st.bit_count
            IN [PutWord(st, bb) EXCEPT !.bit_buffer = Shr(fc.bits, written),
                                       !.bit_count = fc.len - written]
  ELSE SlowWrite(st, code, 0)

\* variant of FlushBits: the last partial byte is not written
FlushBitsFloor(st) ==
  [st EXCEPT !.io = st.io \o SubSeq(Bytes8(st.bit_buffer), 1, st.bit_count \div 8),
             !.bit_count = 0]

\* "while (bit_count > 0)": one byte per iteration, bit_count -= 8 (an int,
\* it may end below 0)
RECURSIVE FlushBits(_)
FlushBits(st) ==
  IF st.bit_count <= 0 THEN st
  ELSE LET s1 == IF Len(st.io) >= HUFF_IO_BUFFER_CAP
                 THEN [st EXCEPT !.file = FAppend(st.file, st.io), !.io = <<>>]
                 ELSE st
       IN FlushBits([s1 EXCEPT !.io = Append(s1.io, ByteOf(s1.bit_buffer, 0)),
                               !.bit_buffer = Shr(s1.bit_buffer, 8),
                               !.bit_count = s1.bit_count - 8])

\* "if (io_pos > 0) fwrite(io_buffer, 1, io_pos, out)"
FlushBytes(st) == [st EXCEPT !.file = FAppend(st.file, st.io), !.io = <<>>]

----
\* Bit reader.  A reader state is [bit_buffer, bit_count, pos, exhausted]; pos
\* is the offset in the input file of the next byte the reader takes
\* (io_buffer is filled from the file in order, HUFF_IO_BUFFER_CAP bytes at a
\* time, and _huff_bit_reader_fill_io fails exactly at the end of the file).

\* variant of ByteBits: bit 7 of the byte is lost
ByteBitsLow7(b) == {k \in 0..6 : (b \div (2 ^ k)) % 2 = 1}

\* the 1 bits of a byte taken into bit_buffer
ByteBits(b) == {k \in 0..7 : (b \div (2 ^ k)) % 2 = 1}

_huff_bit_reader_init ==
  [bit_buffer |-> Zero64, bit_count |-> 0, pos |-> HeaderSize, exhausted |-> FALSE]

RECURSIVE _huff_bit_reader_ensure(_, _, _)
_huff_bit_reader_ensure(file, r, n) ==
  IF r.bit_count >= n THEN r
  ELSE IF r.pos >= file.len THEN [r EXCEPT !.exhausted = TRUE]
  ELSE _huff_bit_reader_ensure(file,
         [r EXCEPT !.bit_buffer = OrShl(r.bit_buffer, ByteBits(FByte(file, r.pos)),
                                        r.bit_count),
                   !.bit_count = r.bit_count + 8,
                   !.pos = r.pos + 1],
         n)

\* reader.bit_buffer & (HUFF_DEC_TABLE_SIZE - 1)
RECURSIVE PeekFrom(_, _)
PeekFrom(x, i) ==
  IF i = HUFF_DEC_TABLE_BITS THEN 0
  ELSE (IF i \in x THEN 2 ^ i ELSE 0) + PeekFrom(x, i + 1)

Peek(r) == PeekFrom(r.bit_buffer, 0)

\* variant of Consume: bit_buffer is not shifted
ConsumeCountOnly(r, n) == [r EXCEPT !.bit_count = r.bit_count - n]

\* bit_buffer >>= n; bit_count -= n
Consume(r, n) ==
  [r EXCEPT !.bit_buffer = Shr(r.bit_buffer, n), !.bit_count = r.bit_count - n]

----
\* Decoder lookup table.  table[i] is a function of the rebuilt tree alone;
\* DecTableEntry(nodes, i) is the entry the loop over i stores at index i.

\* nodes[] is zero-initialised: an index at or above node_count reads zeros
NodeRead(nodes, i) ==
  IF i < Len(nodes) THEN nodes[i + 1]
  ELSE [weight |-> 0, left |-> 0, right |-> 0, symbol |-> 0]

RECURSIVE TableWalk(_, _, _, _)
TableWalk(nodes, i, node, b) ==
  IF b = HUFF_DEC_TABLE_BITS
  THEN [symbol |-> -1, bits |-> HUFF_DEC_TABLE_BITS, next_node |-> node]
  ELSE LET bit == (i \div (2 ^ b)) % 2
           n2 == IF bit = 1 THEN NodeRead(nodes, node).right
                 ELSE NodeRead(nodes, node).left
       IN IF n2 < 0
          THEN [symbol |-> -1, bits |-> HUFF_DEC_TABLE_BITS, next_node |-> n2]
          ELSE IF NodeRead(nodes, n2).left < 0 /\ NodeRead(nodes, n2).right < 0
          THEN [symbol |-> NodeRead(nodes, n2).symbol, bits |-> b + 1,
                next_node |-> -1]
          ELSE TableWalk(nodes, i, n2, b + 1)

\* variant of DecTableEntry: the walk starts at bit 1 of i
DecTableEntryHigh(nodes, i) == TableWalk(nodes, i \div 2, 0, 0)

DecTableEntry(nodes, i) == TableWalk(nodes, i, 0, 0)

----
\* Decode loop

\* The slow path's walk from node_index: [status, node, rd] with status
\* "leaf" (node is the leaf reached), "bad" (the stream ended or a child is
\* missing) or "oob" (node_index is outside nodes[0 .. HUFF_MAX_NODES-1]: the
\* read of nodes[node_index] is undefined).
RECURSIVE TreeWalk(_, _, _, _)
TreeWalk(file, nodes, node_index, r) ==
  IF node_index < 0 \/ node_index >= HUFF_MAX_NODES
  THEN [status |-> "oob", node |-> node_index, rd |-> r]
  ELSE IF NodeRead(nodes, node_index).left < 0
          /\ NodeRead(nodes, node_index).right < 0
  THEN [status |-> "leaf", node |-> node_index, rd |-> r]
  ELSE IF r.bit_count = 0 /\ r.pos >= file.len
  THEN [status |-> "bad", node |-> node_index, rd |-> r]
  ELSE LET r1 == IF r.bit_count = 0
                 THEN [r EXCEPT !.bit_buffer = ByteBits(FByte(file, r.pos)),
                                !.bit_count = 8, !.pos = r.pos + 1]
                 ELSE r
           bit == IF 0 \in r1.bit_buffer THEN 1 ELSE 0
           r2 == Consume(r1, 1)
           next == IF bit = 1 THEN NodeRead(nodes, node_index).right
                   ELSE NodeRead(nodes, node_index).left
       IN IF next < 0 THEN [status |-> "bad", node |-> next, rd |-> r2]
          ELSE TreeWalk(file, nodes, next, r2)

\* the reader states the walk of TreeWalk passes through: before and after
\* each single-bit read
RECURSIVE WalkReaders(_, _, _, _)
WalkReaders(file, nodes, node_index, r) ==
  IF node_index < 0 \/ node_index >= HUFF_MAX_NODES THEN {r}
  ELSE IF NodeRead(nodes, node_index).left < 0
          /\ NodeRead(nodes, node_index).right < 0
  THEN {r}
  ELSE IF r.bit_count = 0 /\ r.pos >= file.len THEN {r}
  ELSE LET r1 == IF r.bit_count = 0
                 THEN [r EXCEPT !.bit_buffer = ByteBits(FByte(file, r.pos)),
                                !.bit_count = 8, !.pos = r.pos + 1]
                 ELSE r
           bit == IF 0 \in r1.bit_buffer THEN 1 ELSE 0
           r2 == Consume(r1, 1)
           next == IF bit = 1 THEN NodeRead(nodes, node_index).right
                   ELSE NodeRead(nodes, node_index).left
       IN {r, r1, r2} \cup (IF next < 0 THEN {}
                            ELSE WalkReaders(file, nodes, next, r2))

\* the reader states one iteration of the decode loop passes through, between
\* its operations on the reader: before and after the bytes _huff_bit_reader_ensure
\* loads, after the bits of a table entry are consumed, along the walk
RECURSIVE EnsureReaders(_, _, _)
EnsureReaders(file, r, n) ==
  IF r.bit_count >= n \/ r.pos >= file.len THEN {r}
  ELSE {r} \cup EnsureReaders(file,
         [r EXCEPT !.bit_buffer = OrShl(r.bit_buffer, ByteBits(FByte(file, r.pos)),
                                        r.bit_count),
                   !.bit_count = r.bit_count + 8,
                   !.pos = r.pos + 1],
         n)

StepReaders(file, nodes, r0) ==
  LET r == _huff_bit_reader_ensure(file, r0, HUFF_DEC_TABLE_BITS)
      entry == DecTableEntry(nodes, Peek(r))
  IN EnsureReaders(file, r0, HUFF_DEC_TABLE_BITS) \cup {r} \cup
     (IF entry.symbol >= 0
      THEN (IF r.bit_count < entry.bits THEN {} ELSE {Consume(r, entry.bits)})
      ELSE IF r.bit_count < HUFF_DEC_TABLE_BITS THEN {}
      ELSE WalkReaders(file, nodes, entry.next_node,
                       Consume(r, HUFF_DEC_TABLE_BITS)))

\* variant of DecodeStep: the slow path does not compare bit_count with the
\* table's index bits
DecodeStepSlowNoCheck(file, nodes, r0) ==
  LET r == _huff_bit_reader_ensure(file, r0, HUFF_DEC_TABLE_BITS)
      entry == DecTableEntry(nodes, Peek(r))
  IN IF entry.symbol >= 0
     THEN IF r.bit_count < entry.bits
          THEN [status |-> "bad", symbol |-> -1, rd |-> r]
          ELSE [status |-> "emit", symbol |-> entry.symbol % 256,
                rd |-> Consume(r, entry.bits)]
     ELSE LET w == TreeWalk(file, nodes, entry.next_node,
                            Consume(r, HUFF_DEC_TABLE_BITS))
          IN IF w.status = "leaf"
             THEN [status |-> "emit",
                   symbol |-> NodeRead(nodes, w.node).symbol % 256,
                   rd |-> w.rd]
             ELSE [status |-> w.status, symbol |-> -1, rd |-> w.rd]

\* variant of DecodeStep: bit_count is not compared with the bits consumed
DecodeStepNoCheck(file, nodes, r0) ==
  LET r == _huff_bit_reader_ensure(file, r0, HUFF_DEC_TABLE_BITS)
      entry == DecTableEntry(nodes, Peek(r))
  IN IF entry.symbol >= 0
     THEN [status |-> "emit", symbol |-> entry.symbol % 256,
           rd |-> [r EXCEPT !.bit_buffer = Shr(r.bit_buffer, entry.bits),
                            !.bit_count = IF r.bit_count < entry.bits THEN 0
                                          ELSE r.bit_count - entry.bits]]
     ELSE [status |-> "bad", symbol |-> -1, rd |-> r]

\* One iteration of "while (produced < original_size)" up to the store in
\* out_buffer: [status, symbol, rd] with status "emit", "bad" (decode_error
\* with HUFF_ERROR_BAD_FORMAT) or "oob".
\* variant of DecodeStep: the fast path leaves the last bit of the code in
\* bit_buffer
DecodeStepKeepLastBit(file, nodes, r0) ==
  LET r == _huff_bit_reader_ensure(file, r0, HUFF_DEC_TABLE_BITS)
      entry == DecTableEntry(nodes, Peek(r))
  IN IF entry.symbol >= 0
     THEN IF r.bit_count < entry.bits
          THEN [status |-> "bad", symbol |-> -1, rd |-> r]
          ELSE [status |-> "emit", symbol |-> entry.symbol % 256,
                rd |-> Consume(r, entry.bits - 1)]
     ELSE IF r.bit_count < HUFF_DEC_TABLE_BITS
          THEN [status |-> "bad", symbol |-> -1, rd |-> r]
          ELSE LET w == TreeWalk(file, nodes, entry.next_node,
                                 Consume(r, HUFF_DEC_TABLE_BITS))
               IN IF w.status = "leaf"
                  THEN [status |-> "emit",
                        symbol |-> NodeRead(nodes, w.node).symbol % 256,
                        rd |-> w.rd]
                  ELSE [status |-> w.status, symbol |-> -1, rd |-> w.rd]

DecodeStep(file, nodes, r0) ==
  LET r == _huff_bit_reader_ensure(file, r0, HUFF_DEC_TABLE_BITS)
      entry == DecTableEntry(nodes, Peek(r))
  IN IF entry.symbol >= 0
     THEN IF r.bit_count < entry.bits
          THEN [status |-> "bad", symbol |-> -1, rd |-> r]
          ELSE [status |-> "emit", symbol |-> entry.symbol % 256,
                rd |-> Consume(r, entry.bits)]
     ELSE IF r.bit_count < HUFF_DEC_TABLE_BITS
          THEN [status |-> "bad", symbol |-> -1, rd |-> r]
          ELSE LET w == TreeWalk(file, nodes, entry.next_node,
                                 Consume(r, HUFF_DEC_TABLE_BITS))
               IN IF w.status = "leaf"
                  THEN [status |-> "emit",
                        symbol |-> NodeRead(nodes, w.node).symbol % 256,
                        rd |-> w.rd]
                  ELSE [status |-> w.status, symbol |-> -1, rd |-> w.rd]

\* What the read of nodes[-1] can lead to: a crash, a walk that ends in
\* decode_error, or a walk that ends on some byte value that is emitted.
OobOutcomes ==
  {[kind |-> "crash", symbol |-> -1], [kind |-> "bad", symbol |-> -1]}
  \cup {[kind |-> "emit", symbol |-> b] : b \in Alphabet}

Outcomes(step) ==
  IF step.status = "oob" THEN OobOutcomes
  ELSE {[kind |-> step.status, symbol |-> step.symbol]}

----
\* Inputs

Repeat(p, k) == [i \in 1..(Len(p) * k) |-> p[((i - 1) % Len(p)) + 1]]

ShortInputs == UNION {[1..n -> Alphabet] : n \in 0..MaxLen}
MidInputs == {Repeat(p, MidReps) : p \in [1..3 -> Alphabet]}
LongInputs == {Repeat(p, LongReps) : p \in [1..3 -> Alphabet]}
Inputs == ShortInputs \cup MidInputs \cup LongInputs

----
\* State

VARIABLES
  in_file,     \* the input file of huffman_encode
  epc,         \* where huffman_encode is
  data,        \* the input image (data, size = Len(data))
  num_cores,   \* _huff_parallel_freq_count: number of workers
  workers,     \* args[i] and the state of threads[i], for the created threads
  joined,      \* number of threads joined
               \* (num_cores, workers, joined are locals of
               \* _huff_parallel_freq_count: reset when it returns)
  freq,        \* freq[]
  nodes,       \* nodes[0 .. node_count-1]
  heap,        \* heap.data[0 .. heap.size-1]
  root,
  codes,
  lengths,
  wr,          \* the bit writer and the output file
  enc_i,       \* the index i of the loop over the input bytes
  eres,        \* the result huffman_encode returned
  run,         \* 1: first call of huffman_encode, 2: a second call on the same input
  first_file,  \* the container the first call wrote
  used_cores,  \* the number of workers the call counted with (0: not yet)
  first_cores, \* the number of workers the first call counted with
  tamper,      \* what was done to the container before huffman_decode reads it
  dec_file,    \* the input file of huffman_decode
  dpc,         \* where huffman_decode is
  original_size,
  dlengths,    \* lengths[] of huffman_decode
  dcodes,      \* codes[] of huffman_decode
  dnodes,      \* nodes[0 .. node_count-1] of huffman_decode
  rd,          \* the bit reader
  produced,
  out_buffer,  \* out_buffer[0 .. out_pos-1]
  dec_out,     \* the output file of huffman_decode
  out_created, \* the output file has been created (truncated)
  dres,        \* the result huffman_decode returned
  undefined,    \* the call executed undefined behaviour
  stats,        \* *stats: the HuffStats the caller passes to both calls
  fault,        \* the call of the C library that was made to fail ("none": none)
  held,         \* the state of each file handle and heap buffer of the calls
  overlap      \* the call that was started while the other was running, with stats = NULL ("none": the calls do not overlap)

evars == <<in_file, epc, data, num_cores, workers, joined, freq, nodes, heap,
           root, codes, lengths, wr, enc_i, eres, run, first_file, used_cores,
           first_cores>>

dvars == <<tamper, dec_file, dpc, original_size, dlengths, dcodes, dnodes, rd,
           produced, out_buffer, dec_out, out_created, dres, undefined>>

xvars == <<stats, fault, held, overlap>>

vars == <<evars, dvars, xvars>>

size == Len(data)

NoWriter ==
  [bit_buffer |-> Zero64, bit_count |-> 0, io |-> <<>>, file |-> EmptyFile]

\* File handles and heap buffers.  Each is "unused" (the pointer is still
\* NULL, or not yet set), "null" (malloc returned NULL), "live", "released"
\* (closed or freed once); "double" after a second release or the release of
\* a handle never opened, "dangling" after a use that followed the release,
\* "nulluse" after a use of a buffer that malloc did not give.
EncResources == {"in", "data", "out", "io_buffer"}
DecResources == {"d_in", "d_out", "out_buffer", "reader"}
Resources == EncResources \cup DecResources
NoResources == [r \in Resources |-> "unused"]

\* fopen or malloc succeeded
Acquire(h, r) == [h EXCEPT ![r] = "live"]
\* malloc returned NULL
Missing(h, r) == [h EXCEPT ![r] = "null"]
\* fclose(f), or free(p) with p not NULL
Release(h, r) ==
  [h EXCEPT ![r] = IF h[r] = "live" THEN "released" ELSE "double"]
\* free(p), and "if (out) fclose(out)": nothing happens for a null pointer
Free(h, r) ==
  IF h[r] \in {"unused", "null", "nulluse"} THEN h ELSE Release(h, r)
\* a read or a write through the handle or the buffer
Use(h, r) ==
  [h EXCEPT ![r] = IF h[r] = "live" THEN "live"
                   ELSE IF h[r] = "released" THEN "dangling"
                   ELSE IF h[r] = "null" THEN "nulluse"
                   ELSE h[r]]

\* variant of EncCleanup: data is not freed
EncCleanupNoData(h) == Free(Free(h, "out"), "io_buffer")

\* huffman_encode, "cleanup:"
EncCleanup(h) == Free(Free(Free(h, "out"), "io_buffer"), "data")

\* huffman_decode, "fclose(out); fclose(in);"
DecClose(h) == Release(Release(h, "d_out"), "d_in")

\* huffman_decode, "decode_error:" and the same four calls before the
\* successful return
DecRelease(h) == DecClose(Free(Free(h, "out_buffer"), "reader"))

\* The calls that may be made to fail: one in a behaviour, and none once two
\* calls overlap
Faults(among) ==
  {"none"} \cup (IF fault = "none" /\ overlap = "none" THEN among ELSE {})

\* the result of _huff_read_entire_file on a file of n bytes when call f fails
_huff_read_entire_file(h, f, n) ==
  IF f = "in_fopen" THEN [result |-> "HUFF_ERROR_FILE_OPEN", held |-> h]
  ELSE LET h1 == Acquire(h, "in") IN
       IF f = "in_fseeko"
       THEN [result |-> "HUFF_ERROR_FILE_READ", held |-> Release(h1, "in")]
       ELSE IF n = 0
       THEN [result |-> "HUFF_SUCCESS", held |-> Release(h1, "in")]
       ELSE IF f = "in_malloc"
       THEN [result |-> "HUFF_ERROR_MEMORY",
             held |-> Release(Missing(h1, "data"), "in")]
       ELSE LET h2 == Use(Use(Acquire(h1, "data"), "in"), "data") IN
            IF f = "in_fread"
            THEN [result |-> "HUFF_ERROR_FILE_READ",
                  held |-> Release(Free(h2, "data"), "in")]
            ELSE [result |-> "HUFF_SUCCESS", held |-> Release(h2, "in")]

EncStart ==
  /\ epc = "start"
  /\ data = <<>>
  /\ num_cores = 0
  /\ workers = <<>>
  /\ joined = 0
  /\ freq = ZeroFreq
  /\ nodes = <<>>
  /\ heap = <<>>
  /\ root = -1
  /\ codes = NoCodes
  /\ lengths = NoTable
  /\ wr = NoWriter
  /\ enc_i = 0
  /\ eres = "NONE"

DecIdle ==
  /\ tamper = "none"
  /\ dec_file = EmptyFile
  /\ dpc = "idle"
  /\ original_size = 0
  /\ dlengths = NoTable
  /\ dcodes = NoCodes
  /\ dnodes = <<>>
  /\ rd = _huff_bit_reader_init
  /\ produced = 0
  /\ out_buffer = <<>>
  /\ dec_out = EmptyFile
  /\ out_created = FALSE
  /\ dres = "NONE"
  /\ undefined = FALSE

\* what the caller's HuffStats holds before the first call: zeroes, or the
\* figures of some earlier use (the usage comment of the header passes an
\* uninitialised struct)
PriorStats ==
  {[original_size |-> 0, compressed_size |-> 0],
   [original_size |-> 5, compressed_size |-> 2]}

Init ==
  /\ in_file \in Inputs
  /\ EncStart
  /\ run = 1
  /\ first_file = EmptyFile
  /\ used_cores = 0
  /\ first_cores = 0
  /\ stats \in PriorStats
  /\ fault = "none"
  /\ held = NoResources
  /\ overlap = "none"
  /\ DecIdle

\* huffman_encode up to the call of _huff_parallel_freq_count: the input is
\* read into memory, the output file is created (truncated)
EncOpen ==
  /\ epc = "start"
  /\ \E f \in Faults({"in_fopen", "in_fseeko", "out_fopen"}
                    \cup (IF Len(in_file) > 0 THEN {"in_malloc", "in_fread"}
                          ELSE {})) :
       LET r == _huff_read_entire_file(held, f, Len(in_file)) IN
       /\ fault' = IF f = "none" THEN fault ELSE f
       /\ IF r.result # "HUFF_SUCCESS"
          THEN \* cleanup: finds out, io_buffer and data NULL
               /\ eres' = r.result
               /\ epc' = "done"
               /\ held' = r.held
               /\ UNCHANGED <<data, wr>>
          ELSE IF f = "out_fopen"
          THEN /\ eres' = "HUFF_ERROR_FILE_OPEN"
               /\ epc' = "done"
               /\ data' = in_file
               /\ held' = EncCleanup(r.held)
               /\ UNCHANGED wr
          ELSE /\ data' = in_file
               /\ wr' = NoWriter
               /\ epc' = "count"
               /\ held' = Acquire(r.held, "out")
               /\ UNCHANGED eres
  /\ UNCHANGED <<in_file, num_cores, workers, joined, freq, nodes, heap, root,
                 codes, lengths, enc_i, run, first_file, used_cores,
                 first_cores, dvars>>
  /\ UNCHANGED stats
  /\ UNCHANGED overlap

\* _huff_parallel_freq_count: the number of workers
FreqStart ==
  /\ epc = "count"
  /\ \E cores \in 1..MaxCores :
       num_cores' = IF size < SmallFileLimit THEN 1
                    ELSE IF cores > MAX_THREADS THEN MAX_THREADS ELSE cores
  /\ used_cores' = num_cores'
  /\ epc' = "spawn"
  /\ UNCHANGED <<in_file, data, workers, joined, freq, nodes, heap, root, codes,
                 lengths, wr, enc_i, eres, run, first_file, first_cores, dvars>>
  /\ UNCHANGED stats
  /\ UNCHANGED fault
  /\ UNCHANGED held
  /\ UNCHANGED overlap

\* one iteration of the first loop: args[i] is set and thread i created
FreqCreate ==
  /\ epc = "spawn"
  /\ Len(workers) < num_cores
  /\ LET i == Len(workers) IN
     workers' = Append(workers,
                  [base |-> ChunkBase(size, num_cores, i),
                   size |-> ChunkSize(size, num_cores, i),
                   freq |-> "uninit", state |-> "running"])
  /\ UNCHANGED <<in_file, epc, data, num_cores, joined, freq, nodes, heap, root,
                 codes, lengths, wr, enc_i, eres, run, first_file, used_cores,
                 first_cores, dvars>>
  /\ UNCHANGED stats
  /\ UNCHANGED fault
  /\ UNCHANGED held
  /\ UNCHANGED overlap

\* thread w runs _huff_freq_worker as far as the end of the loop over the
\* blocks of 8 bytes: args->freq is cleared and the blocks are counted
FreqWorkerBlocks(w) ==
  /\ w \in 1..Len(workers)
  /\ workers[w].state = "running"
  /\ workers' = [workers EXCEPT
                   ![w].freq = CountBlocks(data, workers[w].base, 0,
                                           workers[w].size, ZeroFreq),
                   ![w].state = "tail"]
  /\ UNCHANGED <<in_file, epc, data, num_cores, joined, freq, nodes, heap, root,
                 codes, lengths, wr, enc_i, eres, run, first_file, used_cores,
                 first_cores, dvars>>
  /\ UNCHANGED stats
  /\ UNCHANGED fault
  /\ UNCHANGED held
  /\ UNCHANGED overlap

\* thread w counts the remaining bytes and returns
FreqWorkerTail(w) ==
  /\ w \in 1..Len(workers)
  /\ workers[w].state = "tail"
  /\ workers' = [workers EXCEPT
                   ![w].freq = _huff_freq_worker(data, workers[w].base,
                                                 workers[w].size),
                   ![w].state = "done"]
  /\ UNCHANGED <<in_file, epc, data, num_cores, joined, freq, nodes, heap, root,
                 codes, lengths, wr, enc_i, eres, run, first_file, used_cores,
                 first_cores, dvars>>
  /\ UNCHANGED stats
  /\ UNCHANGED fault
  /\ UNCHANGED held
  /\ UNCHANGED overlap

\* variant of FreqJoin: the driver does not wait for thread i
FreqJoinNoWait ==
  /\ epc = "spawn"
  /\ Len(workers) = num_cores
  /\ joined < num_cores
  /\ LET part == IF workers[joined + 1].state = "running" THEN ZeroFreq
                 ELSE workers[joined + 1].freq IN
     freq' = [j \in DOMAIN freq \cup DOMAIN part |-> TGet(freq, j) + TGet(part, j)]
  /\ IF joined + 1 = num_cores
     THEN /\ workers' = <<>>
          /\ num_cores' = 0
          /\ joined' = 0
          /\ epc' = IF size > 0 THEN "tree" ELSE "header"
     ELSE /\ joined' = joined + 1
          /\ UNCHANGED <<workers, num_cores, epc>>
  /\ UNCHANGED <<in_file, data, nodes, heap, root, codes, lengths,
                 wr, enc_i, eres, run, first_file, used_cores,
                 first_cores, dvars>>
  /\ UNCHANGED stats
  /\ UNCHANGED fault
  /\ UNCHANGED held
  /\ UNCHANGED overlap

\* one iteration of the second loop: pthread_join of thread i, then
\* freq[j] += args[i].freq[j]; after the last one the function returns
FreqJoin ==
  /\ epc = "spawn"
  /\ Len(workers) = num_cores
  /\ joined < num_cores
  /\ workers[joined + 1].state = "done"
  /\ LET part == workers[joined + 1].freq IN
     freq' = [j \in DOMAIN freq \cup DOMAIN part |-> TGet(freq, j) + TGet(part, j)]
  /\ IF joined + 1 = num_cores
     THEN /\ workers' = <<>>
          /\ num_cores' = 0
          /\ joined' = 0
          /\ epc' = IF size > 0 THEN "tree" ELSE "header"
     ELSE /\ joined' = joined + 1
          /\ UNCHANGED <<workers, num_cores, epc>>
  /\ UNCHANGED <<in_file, data, nodes, heap, root, codes, lengths,
                 wr, enc_i, eres, run, first_file, used_cores,
                 first_cores, dvars>>
  /\ UNCHANGED stats
  /\ UNCHANGED fault
  /\ UNCHANGED held
  /\ UNCHANGED overlap

\* _huff_build_tree up to the merge loop
EncInitLeaves ==
  /\ epc = "tree"
  /\ LET r == InitLeaves(freq, 0, <<>>, <<>>) IN
     /\ nodes' = r.nodes
     /\ heap' = r.heap
     /\ IF ~r.ok \/ Len(r.nodes) = 0
        THEN /\ root' = -1
             /\ epc' = "done"
             /\ eres' = "HUFF_ERROR_UNKNOWN"
        ELSE IF Len(r.heap) = 1
        THEN /\ root' = r.heap[1]
             /\ epc' = "collect"
             /\ eres' = eres
        ELSE /\ root' = root
             /\ epc' = "merge"
             /\ eres' = eres
  /\ UNCHANGED <<in_file, data, num_cores, workers, joined, freq, codes,
                 lengths, wr, enc_i, run, first_file, used_cores,
                 first_cores, dvars>>
  /\ UNCHANGED stats
  /\ UNCHANGED fault
  /\ held' = IF epc' = "done" THEN EncCleanup(held) ELSE held
  /\ UNCHANGED overlap

\* _huff_build_tree: one iteration of "while (heap.size > 1)", and the return
\* after the last one
EncMerge ==
  /\ epc = "merge"
  /\ LET r == MergeStep(nodes, heap) IN
     /\ nodes' = r.nodes
     /\ heap' = r.heap
     /\ IF ~r.ok
        THEN /\ root' = -1
             /\ epc' = "done"
             /\ eres' = "HUFF_ERROR_UNKNOWN"
        ELSE IF Len(r.heap) > 1
        THEN UNCHANGED <<root, epc, eres>>
        ELSE /\ root' = r.heap[1]
             /\ epc' = "collect"
             /\ eres' = eres
  /\ UNCHANGED <<in_file, data, num_cores, workers, joined, freq, codes,
                 lengths, wr, enc_i, run, first_file, used_cores,
                 first_cores, dvars>>
  /\ UNCHANGED stats
  /\ UNCHANGED fault
  /\ held' = IF epc' = "done" THEN EncCleanup(held) ELSE held
  /\ UNCHANGED overlap

\* _huff_collect_codes, lengths[i] = (uint8_t)codes[i].bit_count,
\* _huff_make_canonical
EncCodes ==
  /\ epc = "collect"
  /\ LET cc == _huff_collect_codes(nodes, root)
         ll == [i \in {x \in DOMAIN cc : cc[x].bit_count % 256 # 0}
                |-> cc[i].bit_count % 256]
     IN /\ lengths' = ll
        /\ \E ub \in ShiftUB : codes' = _huff_make_canonical(ll, ub)
  /\ epc' = "header"
  /\ UNCHANGED <<in_file, data, num_cores, workers, joined, freq, nodes, heap,
                 root, wr, enc_i, eres, run, first_file, used_cores,
                 first_cores, dvars>>
  /\ UNCHANGED stats
  /\ UNCHANGED fault
  /\ UNCHANGED held
  /\ UNCHANGED overlap

\* _huff_write_header, the return for an empty input, the start of the writer
EncHeader ==
  /\ epc = "header"
  /\ enc_i' = 0
  /\ \E f \in Faults({"header_fwrite"}
                    \cup (IF size > 0 THEN {"io_malloc"} ELSE {})) :
       /\ fault' = IF f = "none" THEN fault ELSE f
       /\ IF f = "header_fwrite"
          THEN /\ wr' = NoWriter
               /\ epc' = "done"
               /\ eres' = "HUFF_ERROR_FILE_WRITE"
               /\ held' = EncCleanup(Use(held, "out"))
          ELSE /\ wr' = [NoWriter EXCEPT
                           !.file = FAppend(EmptyFile,
                                            _huff_write_header(size, lengths))]
               /\ IF size = 0
                  THEN /\ epc' = "done"
                       /\ eres' = "HUFF_SUCCESS"
                       /\ held' = EncCleanup(Use(held, "out"))
                  ELSE IF f = "io_malloc"
                  THEN /\ epc' = "done"
                       /\ eres' = "HUFF_ERROR_MEMORY"
                       /\ held' = EncCleanup(Missing(Use(held, "out"),
                                                     "io_buffer"))
                  ELSE /\ epc' = "body"
                       /\ eres' = eres
                       /\ held' = Acquire(Use(held, "out"), "io_buffer")
  /\ UNCHANGED <<in_file, data, num_cores, workers, joined, freq, nodes, heap,
                 root, codes, lengths, run, first_file, used_cores,
                 first_cores, dvars>>
  /\ UNCHANGED stats
  /\ UNCHANGED overlap

\* one iteration of "for (i = 0; i < size; ++i)"
EncSymbol ==
  /\ epc = "body"
  /\ enc_i < size
  /\ wr' = WriteSymbol(wr, CodeOf(codes, data[enc_i + 1]))
  /\ enc_i' = enc_i + 1
  /\ UNCHANGED <<in_file, epc, data, num_cores, workers, joined, freq, nodes,
                 heap, root, codes, lengths, eres, run, first_file, used_cores,
                 first_cores, dvars>>
  /\ UNCHANGED stats
  /\ UNCHANGED fault
  /\ held' = Use(Use(held, "data"), "io_buffer")
  /\ UNCHANGED overlap

\* the flush of the remaining bits and bytes, and the successful return
EncFlush ==
  /\ epc = "body"
  /\ enc_i = size
  /\ epc' = "done"
  /\ held' = EncCleanup(Use(Use(held, "io_buffer"), "out"))
  /\ \E f \in Faults({"flush_fwrite"}) :
       /\ fault' = IF f = "none" THEN fault ELSE f
       /\ IF f = "flush_fwrite"
          THEN /\ wr' = FlushBits(wr)
               /\ eres' = "HUFF_ERROR_FILE_WRITE"
               /\ UNCHANGED stats
          ELSE /\ wr' = FlushBytes(FlushBits(wr))
               /\ eres' = "HUFF_SUCCESS"
               /\ stats' = IF overlap = "encode" THEN stats
                            ELSE [original_size |-> size,
                                  compressed_size |-> wr'.file.len]
  /\ UNCHANGED <<in_file, data, num_cores, workers, joined, freq, nodes, heap,
                 root, codes, lengths, enc_i, run, first_file, used_cores,
                 first_cores, dvars>>
  /\ UNCHANGED overlap

\* huffman_encode is called a second time on the same input file
EncodeAgain ==
  /\ epc = "done"
  /\ eres = "HUFF_SUCCESS"
  /\ run = 1
  /\ \/ dpc = "idle"
     \/ /\ dpc # "done"
        /\ tamper = "none"
        /\ size <= OverlapLen
  /\ run' = 2
  /\ first_file' = wr.file
  /\ first_cores' = used_cores
  /\ used_cores' = 0
  /\ epc' = "start"
  /\ data' = <<>>
  /\ num_cores' = 0
  /\ workers' = <<>>
  /\ joined' = 0
  /\ freq' = ZeroFreq
  /\ nodes' = <<>>
  /\ heap' = <<>>
  /\ root' = -1
  /\ codes' = NoCodes
  /\ lengths' = NoTable
  /\ wr' = NoWriter
  /\ enc_i' = 0
  /\ eres' = "NONE"
  /\ UNCHANGED <<in_file, dvars>>
  /\ UNCHANGED stats
  /\ UNCHANGED fault
  /\ held' = [r \in Resources |-> IF r \in EncResources THEN "unused"
                                  ELSE held[r]]
  /\ overlap' = IF dpc = "idle" THEN "none" ELSE "encode"

----
\* The file huffman_decode is given: the container of the first call, as
\* written or changed in one place.

BodyLen(f) == f.len - HeaderSize

\* the symbols whose length byte may be changed
TamperSymbols == Alphabet \cup {1}
\* the values a changed length byte takes
ForgeLens == 0..MaxForgeLen \cup {LongCodeLen}
\* the values a changed byte of the magic takes ('1' makes "HUF1")
ForgeMagic == {0, 49}

Encoded ==
  /\ epc = "done"
  /\ eres = "HUFF_SUCCESS"
  /\ run = 1
  /\ dpc = "idle"

Hand(file, what) ==
  /\ dec_file' = file
  /\ tamper' = what
  /\ dpc' = "start"
  /\ used_cores' = 0
  /\ UNCHANGED <<in_file, epc, data, num_cores, workers, joined, freq, nodes,
                 heap, root, codes, lengths, wr, enc_i, eres, run, first_file,
                 first_cores>>
  /\ UNCHANGED <<original_size, dlengths, dcodes, dnodes, rd, produced,
                 out_buffer, dec_out, out_created, dres, undefined>>
  /\ UNCHANGED stats
  /\ UNCHANGED fault
  /\ UNCHANGED held
  /\ UNCHANGED overlap

Deliver ==
  /\ Encoded
  /\ Hand(wr.file, "none")

\* huffman_decode is called on the container of the first call while the
\* second call of huffman_encode is running (inputs of at most OverlapLen bytes)
DeliverDuring ==
  /\ run = 2
  /\ epc # "done"
  /\ dpc = "idle"
  /\ Len(in_file) <= OverlapLen
  /\ dec_file' = first_file
  /\ tamper' = "none"
  /\ dpc' = "start"
  /\ overlap' = "decode"
  /\ UNCHANGED <<evars, original_size, dlengths, dcodes, dnodes, rd, produced,
                 out_buffer, dec_out, out_created, dres, undefined>>
  /\ UNCHANGED <<stats, fault, held>>

TruncateBody ==
  /\ Encoded
  /\ \E k \in 1..BodyLen(wr.file) : Hand(FTruncate(wr.file, wr.file.len - k), "truncate")

\* the lengths a file cut inside its header has: inside the magic, inside
\* original_size, inside the lengths
HeaderCuts == {0, 3, 4, 11, 12, HeaderSize - 1}

TruncateHeader ==
  /\ Encoded
  /\ \E n \in HeaderCuts : Hand(FTruncate(wr.file, n), "header")

CorruptMagic ==
  /\ Encoded
  /\ \E p \in 0..3, v \in ForgeMagic :
       /\ FByte(wr.file, p) # v
       /\ Hand(FSet(wr.file, p, v), "magic")

\* (a length byte is changed in the containers of the short inputs)
TamperLength ==
  /\ Encoded
  /\ size <= MaxLen
  /\ \E s \in TamperSymbols, v \in ForgeLens :
       /\ FByte(wr.file, 12 + s) # v
       /\ Hand(FSet(wr.file, 12 + s, v), "length")

TamperSize ==
  /\ Encoded
  /\ \E n \in 0..(MaxLen + 1) :
       /\ n # size
       /\ Hand(FSet(wr.file, 4, n), "size")

\* the values a changed body byte takes: one bit flipped, or all of them
TamperBytes(b) ==
  {IF (b \div (2 ^ k)) % 2 = 1 THEN b - 2 ^ k ELSE b + 2 ^ k : k \in 0..7}
    \cup {255 - b}

\* (a body byte is changed in the containers of the short and the mid inputs)
TamperBody ==
  /\ Encoded
  /\ size <= 3 * MidReps
  /\ \E p \in HeaderSize .. (wr.file.len - 1) :
       \E v \in TamperBytes(FByte(wr.file, p)) : Hand(FSet(wr.file, p, v), "body")

----
\* huffman_decode

\* up to the test of original_size: the header is read, and only then the
\* output file is created
DecReadHeader ==
  /\ dpc = "start"
  /\ LET h == _huff_read_header(dec_file) IN
     \E f \in Faults({"d_in_fopen"}
                     \cup (IF h.ok THEN {"d_out_fopen"} ELSE {})) :
       /\ fault' = IF f = "none" THEN fault ELSE f
       /\ IF f = "d_in_fopen"
          THEN /\ dres' = "HUFF_ERROR_FILE_OPEN"
               /\ dpc' = "done"
               /\ UNCHANGED <<original_size, dlengths, dec_out, out_created,
                              held>>
          ELSE IF ~h.ok
          THEN /\ dres' = "HUFF_ERROR_BAD_FORMAT"
               /\ dpc' = "done"
               /\ held' = Release(Use(Acquire(held, "d_in"), "d_in"), "d_in")
               /\ UNCHANGED <<original_size, dlengths, dec_out, out_created>>
          ELSE IF f = "d_out_fopen"
          THEN /\ original_size' = h.original_size
               /\ dlengths' = h.lengths
               /\ dres' = "HUFF_ERROR_FILE_OPEN"
               /\ dpc' = "done"
               /\ held' = Release(Use(Acquire(held, "d_in"), "d_in"), "d_in")
               /\ UNCHANGED <<dec_out, out_created>>
          ELSE /\ original_size' = h.original_size
               /\ dlengths' = h.lengths
               /\ dec_out' = EmptyFile
               /\ out_created' = TRUE
               /\ IF h.original_size = 0
                  THEN /\ dres' = "HUFF_SUCCESS"
                       /\ dpc' = "done"
                       /\ held' = DecClose(Acquire(Use(Acquire(held, "d_in"),
                                                       "d_in"), "d_out"))
                  ELSE /\ dres' = dres
                       /\ dpc' = "tables"
                       /\ held' = Acquire(Use(Acquire(held, "d_in"), "d_in"),
                                          "d_out")
  /\ UNCHANGED <<evars, tamper, dec_file, dcodes, dnodes, rd, produced,
                 out_buffer, undefined>>
  /\ UNCHANGED stats
  /\ UNCHANGED overlap

\* variant of Unique: only the lengths equal to 1 are counted
UniqueOnes(t) == Cardinality({i \in DOMAIN t : t[i] = 1})

\* "unique": the number of symbols with lengths[i] > 0
Unique(t) == Cardinality(DOMAIN t)

\* variant of Copies: the last byte is not written
CopiesOneLess(value, n) == [k \in 1..(n - 1) |-> value]

\* the bytes the single-symbol bypass writes (block by block in the source)
Copies(value, n) == [k \in 1..n |-> value]

\* variant of DecNodes: nodes[] is one static array; huffman_encode, when it
\* is between its tree and its return, has its own tree in it
DecNodesStatic(cc) ==
  IF epc \in {"merge", "collect", "header", "body"} /\ nodes # <<>>
  THEN [ok |-> TRUE, nodes |-> nodes]
  ELSE _huff_rebuild_tree(cc)

\* nodes[] of huffman_decode, an array of its own, after _huff_rebuild_tree
DecNodes(cc) == _huff_rebuild_tree(cc)

\* from the count of the non-zero lengths to the start of the decode loop
DecTables ==
  /\ dpc = "tables"
  /\ LET unique == Unique(dlengths)
         last_symbol == IF unique = 0 THEN 0
                        ELSE CHOOSE i \in DOMAIN dlengths :
                               \A k \in DOMAIN dlengths : k <= i
     IN IF unique = 1
        THEN \E f \in Faults({"d_fwrite"}) :
               /\ fault' = IF f = "none" THEN fault ELSE f
               /\ IF f = "d_fwrite"
                  THEN /\ dres' = "HUFF_ERROR_FILE_WRITE"
                       /\ UNCHANGED dec_out
                  ELSE /\ dres' = "HUFF_SUCCESS"
                       /\ dec_out' = FAppend(dec_out,
                                             Copies(last_symbol, original_size))
               /\ dpc' = "done"
               /\ held' = DecClose(Use(held, "d_out"))
               /\ UNCHANGED <<dcodes, dnodes, rd, produced, out_buffer, undefined>>
        ELSE \E sh \in ShiftUB :
               LET cc == _huff_make_canonical(dlengths, sh)
                   r == DecNodes(cc)
               IN /\ dcodes' = cc
                  /\ dnodes' = r.nodes
                  /\ undefined' = (undefined \/ MaxLength(dlengths) > U64_BITS)
                  /\ IF ~r.ok
                     THEN /\ dres' = "HUFF_ERROR_BAD_FORMAT"
                          /\ dpc' = "done"
                          /\ held' = DecClose(held)
                          /\ UNCHANGED <<rd, produced, out_buffer, dec_out, fault>>
                     ELSE \E f \in Faults({"out_malloc", "reader_malloc"}) :
                            /\ fault' = IF f = "none" THEN fault ELSE f
                            /\ IF f = "out_malloc"
                               THEN /\ dres' = "HUFF_ERROR_MEMORY"
                                    /\ dpc' = "done"
                                    /\ held' = DecClose(Missing(held, "out_buffer"))
                                    /\ UNCHANGED <<rd, produced, out_buffer,
                                                   dec_out>>
                               ELSE /\ rd' = _huff_bit_reader_init
                                    /\ produced' = 0
                                    /\ out_buffer' = <<>>
                                    /\ dpc' = "loop"
                                    /\ held' =
                                         IF f = "reader_malloc"
                                         THEN Missing(Acquire(held, "out_buffer"),
                                                      "reader")
                                         ELSE Acquire(Acquire(held, "out_buffer"),
                                                      "reader")
                                    /\ UNCHANGED <<dres, dec_out>>
  /\ UNCHANGED <<evars, tamper, dec_file, original_size, dlengths, out_created>>
  /\ UNCHANGED stats
  /\ UNCHANGED overlap

\* one iteration of "while (produced < original_size)"
DecSymbol ==
  /\ dpc = "loop"
  /\ produced < original_size
  /\ IF held["reader"] = "null" /\ dec_file.len > HeaderSize
     THEN \* fread(NULL, 1, HUFF_IO_BUFFER_CAP, file) with bytes to store
          /\ undefined' = TRUE
          /\ dres' = "CRASH"
          /\ dpc' = "done"
          /\ held' = Use(Use(held, "d_in"), "reader")
          /\ UNCHANGED <<rd, produced, out_buffer, dec_out>>
     ELSE LET step == DecodeStep(dec_file, dnodes, rd) IN
          \E o \in Outcomes(step) :
            /\ rd' = step.rd
            /\ undefined' = (undefined \/ step.status = "oob"
                               \/ held["reader"] = "null")
            /\ IF o.kind = "emit"
               THEN /\ produced' = produced + 1
                    /\ IF Len(out_buffer) + 1 = HUFF_IO_BUFFER_CAP
                       THEN /\ dec_out' = FAppend(dec_out,
                                                  Append(out_buffer, o.symbol))
                            /\ out_buffer' = <<>>
                       ELSE /\ out_buffer' = Append(out_buffer, o.symbol)
                            /\ dec_out' = dec_out
                    /\ held' = Use(Use(Use(held, "d_in"), "reader"), "out_buffer")
                    /\ UNCHANGED <<dpc, dres>>
               ELSE /\ dres' = IF o.kind = "bad" THEN "HUFF_ERROR_BAD_FORMAT"
                               ELSE "CRASH"
                    /\ dpc' = "done"
                    /\ out_buffer' = <<>>
                    /\ held' = IF o.kind = "bad"
                               THEN DecRelease(Use(Use(held, "d_in"), "reader"))
                               ELSE held
                    /\ UNCHANGED <<produced, dec_out>>
  /\ UNCHANGED <<evars, tamper, dec_file, original_size, dlengths, dcodes,
                 dnodes, out_created>>
  /\ UNCHANGED stats
  /\ UNCHANGED fault
  /\ UNCHANGED overlap

\* the flush of out_buffer and the successful return
DecFinish ==
  /\ dpc = "loop"
  /\ produced = original_size
  /\ \E f \in Faults(IF Len(out_buffer) > 0 THEN {"d_flush_fwrite"} ELSE {}) :
       /\ fault' = IF f = "none" THEN fault ELSE f
       /\ IF f = "d_flush_fwrite"
          THEN /\ dres' = "HUFF_ERROR_FILE_WRITE"
               /\ UNCHANGED <<dec_out, stats>>
          ELSE /\ dres' = "HUFF_SUCCESS"
               /\ dec_out' = FAppend(dec_out, out_buffer)
               /\ stats' = IF overlap = "decode" THEN stats
                            ELSE [stats EXCEPT !.original_size = produced]
  /\ held' = DecRelease(IF Len(out_buffer) > 0
                        THEN Use(Use(held, "out_buffer"), "d_out") ELSE held)
  /\ out_buffer' = <<>>
  /\ dpc' = "done"
  /\ UNCHANGED <<evars, tamper, dec_file, original_size, dlengths, dcodes,
                 dnodes, rd, produced, out_created, undefined>>
  /\ UNCHANGED overlap

Next ==
  \/ EncOpen
  \/ FreqStart
  \/ FreqCreate
  \/ \E w \in 1..MAX_THREADS : FreqWorkerBlocks(w)
  \/ \E w \in 1..MAX_THREADS : FreqWorkerTail(w)
  \/ FreqJoin
  \/ EncInitLeaves
  \/ EncMerge
  \/ EncCodes
  \/ EncHeader
  \/ EncSymbol
  \/ EncFlush
  \/ EncodeAgain
  \/ Deliver
  \/ DeliverDuring
  \/ TruncateBody
  \/ TruncateHeader
  \/ CorruptMagic
  \/ TamperLength
  \/ TamperSize
  \/ TamperBody
  \/ DecReadHeader
  \/ DecTables
  \/ DecSymbol
  \/ DecFinish

Spec == Init /\ [][Next]_vars

----
\* The tree builder alone: huffman_encode where it calls _huff_build_tree, for
\* every histogram of counts up to MaxWeight over the first MaxLeaves symbols

TreeSymbols == 0 .. (MaxLeaves - 1)

RECURSIVE Runs(_, _)
Runs(c, s) ==
  IF s = MaxLeaves THEN <<>> ELSE [i \in 1..c[s] |-> s] \o Runs(c, s + 1)

TreeInputs == {Runs(c, 0) : c \in [TreeSymbols -> 0..MaxWeight]} \ {<<>>}

TreeInit ==
  /\ in_file \in TreeInputs
  /\ data = in_file
  /\ freq = _huff_freq_worker(in_file, 0, Len(in_file))
  /\ epc = "tree"
  /\ num_cores = 0
  /\ workers = <<>>
  /\ joined = 0
  /\ nodes = <<>>
  /\ heap = <<>>
  /\ root = -1
  /\ codes = NoCodes
  /\ lengths = NoTable
  /\ wr = NoWriter
  /\ enc_i = 0
  /\ eres = "NONE"
  /\ run = 1
  /\ first_file = EmptyFile
  /\ used_cores = 1
  /\ first_cores = 0
  /\ stats \in PriorStats
  /\ fault = "none"
  /\ held = NoResources
  /\ overlap = "none"
  /\ DecIdle

TreeNext ==
  \/ EncInitLeaves
  \/ EncMerge

TreeSpec == TreeInit /\ [][TreeNext]_vars

----
\* The bit writer alone: huffman_encode where its loop over the input bytes
\* starts, for every table of two stored codes (of 1 bit up to more than 64
\* bits, with any of a few bit patterns) and every sequence of 1..MaxSymbols
\* symbols

WriterSymbols == {0, 1}

\* code lengths: short, one below the accumulator's width, the width, above it
WriterLens == {1, 2, 31, U64_BITS - 1, U64_BITS, U64_BITS + 1}

WriterPatterns == {"ones", "first", "last", "even"}

WriterCode(len, pat) ==
  [bit_count |-> len,
   bits |-> [j \in 1..len |->
               IF \/ pat = "ones"
                  \/ pat = "first" /\ j = 1
                  \/ pat = "last" /\ j = len
                  \/ pat = "even" /\ j % 2 = 0
               THEN 1 ELSE 0]]

WriterCodes == {WriterCode(len, pat) : len \in WriterLens, pat \in WriterPatterns}

WriterTables == [WriterSymbols -> WriterCodes]

WriterInputs == UNION {[1..n -> WriterSymbols] : n \in 1..MaxSymbols}

\* the handles and buffers when the loop starts: the input closed, the
\* input image, the output file and the staging buffer in use
WriterHeld ==
  [r \in Resources |-> IF r \in {"data", "out", "io_buffer"} THEN "live"
                       ELSE IF r = "in" THEN "released" ELSE "unused"]

WriterInit ==
  /\ in_file \in WriterInputs
  /\ data = in_file
  /\ freq = _huff_freq_worker(in_file, 0, Len(in_file))
  /\ lengths \in [WriterSymbols -> WriterLens]
  /\ wr = [NoWriter EXCEPT
             !.file = FAppend(EmptyFile, _huff_write_header(Len(in_file), lengths))]
  /\ codes \in {t \in WriterTables :
                  \A s \in WriterSymbols : t[s].bit_count = lengths[s]}
  /\ epc = "body"
  /\ enc_i = 0
  /\ num_cores = 0
  /\ workers = <<>>
  /\ joined = 0
  /\ nodes = <<>>
  /\ heap = <<>>
  /\ root = -1
  /\ eres = "NONE"
  /\ run = 1
  /\ first_file = EmptyFile
  /\ used_cores = 1
  /\ first_cores = 0
  /\ stats \in PriorStats
  /\ fault = "none"
  /\ held = WriterHeld
  /\ overlap = "none"
  /\ DecIdle

WriterNext ==
  \/ EncSymbol
  \/ EncFlush

WriterSpec == WriterInit /\ [][WriterNext]_vars

----
\* The decoder's tables alone: huffman_decode on containers made for the
\* lengths tables huffman_encode derives from a family of histograms, with a
\* few bodies

\* lengths[i] = (uint8_t)codes[i].bit_count of huffman_encode for a histogram
EncoderLengths(f) ==
  LET t == _huff_build_tree(f)
      cc == _huff_collect_codes(t.nodes, t.root)
  IN [i \in {x \in DOMAIN cc : cc[x].bit_count % 256 # 0} |-> cc[i].bit_count % 256]

RECURSIVE Fib(_)
Fib(k) == IF k <= 2 THEN 1 ELSE Fib(k - 1) + Fib(k - 2)

\* the first symbol of the made histograms ('A')
FirstSymbol == 65

FibFreq(k) == [s \in FirstSymbol .. (FirstSymbol + k - 1) |-> Fib(s - FirstSymbol + 1)]
UniformFreq(k) == [s \in FirstSymbol .. (FirstSymbol + k - 1) |-> 1]
MixedFreqs ==
  {[s \in {x \in DOMAIN c : c[x] > 0} |-> c[s]] :
     c \in [FirstSymbol .. (FirstSymbol + MaxMixed - 1) -> {0, 1, MaxWeight}]}

TableFreqs ==
  {f \in {FibFreq(k) : k \in 2..MaxFib} \cup {UniformFreq(k) : k \in 2..MaxUniform}
           \cup MixedFreqs :
     Cardinality(DOMAIN f) >= 2}

RECURSIVE FreqTotal(_)
FreqTotal(f) ==
  IF DOMAIN f = {} THEN 0
  ELSE LET s == CHOOSE x \in DOMAIN f : TRUE IN
       f[s] + FreqTotal([x \in DOMAIN f \ {s} |-> f[x]])

\* a container file: the header for n symbols and a lengths table, and a body
Container(n, lens, body) ==
  FAppend(FAppend(EmptyFile, _huff_write_header(n, lens)), body)

TableBodies == {<<>>, <<0, 0>>}

\* huffman_decode is called on a file made by hand; huffman_encode is not
\* called
HandMade(files) ==
  /\ in_file = <<>>
  /\ EncStart
  /\ run = 1
  /\ first_file = EmptyFile
  /\ used_cores = 0
  /\ first_cores = 0
  /\ stats = [original_size |-> 0, compressed_size |-> 0]
  /\ fault = "none"
  /\ held = NoResources
  /\ overlap = "none"
  /\ tamper = "made"
  /\ dec_file \in files
  /\ dpc = "start"
  /\ original_size = 0
  /\ dlengths = NoTable
  /\ dcodes = NoCodes
  /\ dnodes = <<>>
  /\ rd = _huff_bit_reader_init
  /\ produced = 0
  /\ out_buffer = <<>>
  /\ dec_out = EmptyFile
  /\ out_created = FALSE
  /\ dres = "NONE"
  /\ undefined = FALSE

\* the files of a set of headers with each of a set of bodies
WithBodies(headers, bodies) == {FAppend(h, b) : h \in headers, b \in bodies}

TableFiles ==
  WithBodies({Container(FreqTotal(f), EncoderLengths(f), <<>>) : f \in TableFreqs},
             TableBodies)

TableInit == HandMade(TableFiles)

TableNext ==
  \/ DecReadHeader
  \/ DecTables
  \/ DecSymbol
  \/ DecFinish

TableSpec == TableInit /\ [][TableNext]_vars

----
\* The decode loop alone: huffman_decode on containers made by hand, whose
\* lengths tables are tables of huffman_encode or are forged (incomplete,
\* over-subscribed, or with codes longer than the index of the lookup table),
\* with every body of up to MaxBody bytes over DecoderBytes and every
\* original_size in 1..MaxOut

\* body bytes: all bits 0, all bits 1, mixed
DecoderBytes == {0, 5, 255}

DecoderBodies == UNION {[1..n -> DecoderBytes] : n \in 0..MaxBody}

\* a lengths table over the symbols FirstSymbol, FirstSymbol + 1, ...
Lens(seq) == [s \in FirstSymbol .. (FirstSymbol + Len(seq) - 1) |-> seq[s - FirstSymbol + 1]]

\* one bit more than the lookup table's index, and a byte more
JustLong == HUFF_DEC_TABLE_BITS + 1
FarLong == HUFF_DEC_TABLE_BITS + 8

EncoderTables ==
  {EncoderLengths(FibFreq(k)) : k \in {2, 3, MaxFib - 1, MaxFib}}

\* sum of 2^-L below 1
IncompleteTables ==
  {Lens(<<1, 2>>), Lens(<<2, 2>>), Lens(<<1, 3, 3>>),
   Lens(<<JustLong, JustLong>>), Lens(<<FarLong, FarLong>>)}

\* sum of 2^-L above 1
OverTables == {Lens(<<1, 1, 1>>), Lens(<<1, 1, 2>>)}

DecoderTables == EncoderTables \cup IncompleteTables \cup OverTables

DecoderFiles ==
  WithBodies({Container(n, t, <<>>) : n \in 1..MaxOut, t \in DecoderTables},
             DecoderBodies)

DecoderInit == HandMade(DecoderFiles)

DecoderNext ==
  \/ DecReadHeader
  \/ DecTables
  \/ DecSymbol
  \/ DecFinish

DecoderSpec == DecoderInit /\ [][DecoderNext]_vars

----
\* The encoder's code assignment alone: huffman_encode from the start of
\* _huff_build_tree to the end of _huff_make_canonical, for inputs in which
\* every present symbol occurs equally often.

\* the numbers of present symbols
UniformCounts == {2, 3, 4, 6, 8, 16, 32, 64, 128, 256}

\* the present symbols: n symbols from first on, stride apart
UniformSymbols(n, first, stride) == {first + stride * j : j \in 0 .. (n - 1)}

\* an input in which each of those symbols occurs w times
UniformInput(n, first, stride, w) ==
  [i \in 1 .. (n * w) |-> first + stride * ((i - 1) \div w)]

UniformInputs ==
  {UniformInput(n, first, stride, w) :
     n \in UniformCounts, first \in {0, 1}, stride \in {1, 3}, w \in 1 .. MaxWeight}

UniformInit ==
  /\ in_file \in {f \in UniformInputs : \A i \in DOMAIN f : f[i] < HUFF_MAX_SYMBOLS}
  /\ data = in_file
  /\ freq = [s \in {in_file[i] : i \in DOMAIN in_file} |->
               Cardinality({i \in DOMAIN in_file : in_file[i] = s})]
  /\ epc = "tree"
  /\ num_cores = 0
  /\ workers = <<>>
  /\ joined = 0
  /\ nodes = <<>>
  /\ heap = <<>>
  /\ root = -1
  /\ codes = NoCodes
  /\ lengths = NoTable
  /\ wr = NoWriter
  /\ enc_i = 0
  /\ eres = "NONE"
  /\ run = 1
  /\ first_file = EmptyFile
  /\ used_cores = 1
  /\ first_cores = 0
  /\ stats = [original_size |-> 0, compressed_size |-> 0]
  /\ fault = "none"
  /\ held = NoResources
  /\ overlap = "none"
  /\ DecIdle

UniformNext ==
  \/ EncInitLeaves
  \/ EncMerge
  \/ EncCodes

UniformSpec == UniformInit /\ [][UniformNext]_vars

----
\* The encoder's lengths alone: huffman_encode from the start of
\* _huff_build_tree to the end of _huff_make_canonical, for every frequency
\* vector over MaxPresent symbols with the frequencies OptimalWeights.

OptimalWeights == {0, 1, 2, 3, 5}

RECURSIVE RunsTo(_, _, _)
RunsTo(c, s, n) ==
  IF s = n THEN <<>> ELSE [i \in 1..c[s] |-> s] \o RunsTo(c, s + 1, n)

OptimalInputs ==
  {RunsTo(c, 0, MaxPresent) : c \in [0 .. (MaxPresent - 1) -> OptimalWeights]}
    \ {<<>>}

OptimalInit ==
  /\ in_file \in OptimalInputs
  /\ data = in_file
  /\ freq = _huff_freq_worker(in_file, 0, Len(in_file))
  /\ epc = "tree"
  /\ num_cores = 0
  /\ workers = <<>>
  /\ joined = 0
  /\ nodes = <<>>
  /\ heap = <<>>
  /\ root = -1
  /\ codes = NoCodes
  /\ lengths = NoTable
  /\ wr = NoWriter
  /\ enc_i = 0
  /\ eres = "NONE"
  /\ run = 1
  /\ first_file = EmptyFile
  /\ used_cores = 1
  /\ first_cores = 0
  /\ stats = [original_size |-> 0, compressed_size |-> 0]
  /\ fault = "none"
  /\ held = NoResources
  /\ overlap = "none"
  /\ DecIdle

OptimalNext ==
  \/ EncInitLeaves
  \/ EncMerge
  \/ EncCodes

OptimalSpec == OptimalInit /\ [][OptimalNext]_vars

----
\* Properties

\* the bytes of a file
FContents(f) == FRead(f, 0, f.len)
\* the distinct symbols of a byte sequence
Present(S) == {S[i] : i \in DOMAIN S}
\* F[s]: the number of occurrences of s in S
Count(S, s) == Cardinality({i \in DOMAIN S : S[i] = s})
\* 'H' 'U' 'F' '2'
MagicHUF2 == <<72, 85, 70, 50>>
\* the length byte of symbol s in a container
LengthByte(f, s) == FByte(f, 12 + s)
\* the symbols with a non-zero length byte in a container
Coded(f) == {s \in Symbols : LengthByte(f, s) # 0}
\* the 8 bytes at offset 4, little endian, when the upper six are 0
SizeField(f) == FByte(f, 4) + 256 * FByte(f, 5)
SizeFieldSmall(f) == \A p \in 6..11 : FByte(f, p) = 0

EncodeDone == epc = "done" /\ eres = "HUFF_SUCCESS"
\* huffman_encode has returned success and its container has not been handed on
EncodeJustDone == EncodeDone /\ dpc = "idle"
\* no call of the C library has been made to fail
NoFault == fault = "none"
\* huffman_decode has returned, and no call of the C library failed
DecodeDone == dpc = "done" /\ NoFault

\* C1: round trip.  huffman_encode returns success on every input, and
\* huffman_decode of the container it wrote returns success with an output
\* equal to the input byte for byte.
RoundTrip ==
  /\ (epc = "done" /\ NoFault => eres = "HUFF_SUCCESS")
  /\ (DecodeDone /\ tamper = "none"
        => dres = "HUFF_SUCCESS" /\ FContents(dec_out) = in_file)

RoundTripWitness ==
  /\ DecodeDone /\ tamper = "none" /\ dres = "HUFF_SUCCESS"
  /\ Cardinality(Present(in_file)) >= 2
  /\ Len(in_file) > MaxLen
  /\ FContents(dec_out) = in_file

\* C2: determinism.  A second call of huffman_encode on the same input,
\* whatever the number of workers and their interleaving in either call,
\* writes a container equal byte for byte to the one the first call wrote.
Determinism ==
  (epc = "done" /\ run = 2 /\ NoFault)
    => (eres = "HUFF_SUCCESS" /\ wr.file = first_file)

DeterminismWitness ==
  /\ epc = "done" /\ run = 2
  /\ first_cores # used_cores
  /\ Cardinality(Present(in_file)) >= 2
  /\ wr.file = first_file

\* C3: header well-formedness.  A container written by a successful
\* huffman_encode starts with 'HUF2', then original_size = |S| in 8 bytes, then
\* 256 length bytes that are 0 exactly for the symbols absent from S; the body
\* follows at offset 268.
HeaderWellFormed ==
  EncodeJustDone =>
    /\ wr.file.len >= 268
    /\ FRead(wr.file, 0, 4) = MagicHUF2
    /\ SizeField(wr.file) = Len(in_file) /\ SizeFieldSmall(wr.file)
    /\ \A s \in Symbols : (LengthByte(wr.file, s) = 0) <=> (s \notin Present(in_file))

HeaderWitness ==
  /\ EncodeDone
  /\ Cardinality(Present(in_file)) = 2
  /\ Len(in_file) = MaxLen
  /\ wr.file.len > 268

\* C4: empty input.  Encoding the empty sequence succeeds with a container of
\* exactly 268 bytes: the magic, then zeros.  Decoding a container whose
\* original_size is 0 succeeds with an empty output.
EmptyInput ==
  /\ (epc = "done" /\ NoFault /\ in_file = <<>>
        => /\ eres = "HUFF_SUCCESS"
           /\ wr.file.len = 268
           /\ FRead(wr.file, 0, 4) = MagicHUF2
           /\ \A p \in 4..267 : FByte(wr.file, p) = 0)
  /\ (DecodeDone /\ dec_file.len >= 268 /\ FRead(dec_file, 0, 4) = MagicHUF2
        /\ SizeField(dec_file) = 0 /\ SizeFieldSmall(dec_file)
        => dres = "HUFF_SUCCESS" /\ out_created /\ dec_out = EmptyFile)

EmptyInputWitness ==
  /\ in_file = <<>> /\ EncodeDone /\ wr.file.len = 268
  /\ DecodeDone /\ tamper = "none" /\ dres = "HUFF_SUCCESS"
  /\ dec_out = EmptyFile

\* sum of 2^(m - L[s]) over the symbols with a length byte L[s] > 0
RECURSIVE KraftScaled(_, _, _)
KraftScaled(f, set, m) ==
  IF set = {} THEN 0
  ELSE LET s == CHOOSE x \in set : TRUE IN
       2 ^ (m - LengthByte(f, s)) + KraftScaled(f, set \ {s}, m)

LongestLength(f) ==
  CHOOSE m \in {LengthByte(f, s) : s \in Coded(f)} \cup {0} :
    \A s \in Coded(f) : LengthByte(f, s) <= m

\* C5: Kraft.  The lengths table the encoder writes has Kraft sum exactly 1
\* for an input with two or more distinct symbols, and the single entry L = 1
\* for an input with one distinct symbol.
KraftEquality ==
  EncodeJustDone =>
    /\ (Cardinality(Present(in_file)) >= 2
          => KraftScaled(wr.file, Coded(wr.file), LongestLength(wr.file))
               = 2 ^ LongestLength(wr.file))
    /\ (Cardinality(Present(in_file)) = 1
          => /\ Coded(wr.file) = Present(in_file)
             /\ \A s \in Coded(wr.file) : LengthByte(wr.file, s) = 1)

KraftWitness ==
  /\ EncodeDone
  /\ Cardinality(Present(in_file)) = 3
  /\ LongestLength(wr.file) = 2
  /\ \E s \in Coded(wr.file) : LengthByte(wr.file, s) = 1

\* Natural numbers of any width: the set of the positions of the 1 bits.
\* x + 2^i
RECURSIVE WideAddBit(_, _)
WideAddBit(x, i) ==
  IF i \in x THEN WideAddBit(x \ {i}, i + 1) ELSE x \cup {i}

\* x + k * 2^sh for a natural k below 2^9, bit i of k upwards
RECURSIVE WideAdd(_, _, _, _)
WideAdd(x, k, sh, i) ==
  IF i = 9 THEN x
  ELSE WideAdd(IF (k \div (2 ^ i)) % 2 = 1 THEN WideAddBit(x, sh + i) ELSE x,
               k, sh, i + 1)

\* The first code value of length len under the rule
\* "code <- (code + bl_count[l - 1]) << 1": the sum over the shorter lengths k
\* present in L of bl_count[k] * 2^(len - k).
RECURSIVE RuleFirst(_, _, _)
RuleFirst(L, ks, len) ==
  IF ks = {} THEN {}
  ELSE LET k == CHOOSE x \in ks : TRUE IN
       WideAdd(RuleFirst(L, ks \ {k}, len),
               Cardinality({t \in DOMAIN L : L[t] = k}), len - k, 0)

\* the canonical code value of symbol s: consecutive values per length, in
\* ascending order of the symbols
RuleValue(L, s) ==
  WideAdd(RuleFirst(L, {L[t] : t \in DOMAIN L} \cap 1..(L[s] - 1), L[s]),
          Cardinality({t \in DOMAIN L : L[t] = L[s] /\ t < s}), 0, 0)

\* the code table of the rule, stored bit-reversed: bit j (from 0) of the
\* stored pattern is bit (L[s] - 1 - j) of the code value
RuleCodes(L) ==
  [s \in DOMAIN L |->
     [bit_count |-> L[s],
      bits |-> [j \in 1..L[s] |-> IF (L[s] - j) \in RuleValue(L, s) THEN 1 ELSE 0]]]

\* C6: canonicality.  For every lengths table, the code table
\* _huff_make_canonical computes is the table of the (length ascending, symbol
\* ascending) rule stored bit-reversed, in the encoder and in the decoder, and
\* the two agree on the same lengths.
Canonicality ==
  /\ codes = RuleCodes(lengths)
  /\ (dcodes # NoCodes => dcodes = RuleCodes(dlengths))
  /\ (dcodes # NoCodes /\ dlengths = lengths => dcodes = codes)

\* the number of code bits of S under the lengths of container f
RECURSIVE CodedBits(_, _, _)
CodedBits(S, f, set) ==
  IF set = {} THEN 0
  ELSE LET s == CHOOSE x \in set : TRUE IN
       Count(S, s) * LengthByte(f, s) + CodedBits(S, f, set \ {s})

\* C7: bit-stream length.  For a non-empty input the body, the bytes after
\* the 268-byte header, has ceil(sum of F[s] * L[s] / 8) bytes.
BodyLength ==
  EncodeJustDone /\ Len(in_file) > 0 =>
    wr.file.len - 268 = (CodedBits(in_file, wr.file, Present(in_file)) + 7) \div 8

BodyLengthWitness ==
  /\ EncodeDone
  /\ wr.file.len - 268 > 8
  /\ CodedBits(in_file, wr.file, Present(in_file)) % 8 # 0

\* sum of 2^(16 - L[s]) over the symbols of set
RECURSIVE KraftPart(_, _)
KraftPart(L, set) ==
  IF set = {} THEN 0
  ELSE LET s == CHOOSE x \in set : TRUE IN
       2 ^ (16 - L[s]) + KraftPart(L, set \ {s})

\* the Kraft sum of L is above 1 (the lengths above 16 add less than 2^-16
\* each, and the sum of the others is a multiple of 2^-16)
KraftOver(L) ==
  LET short == {s \in DOMAIN L : L[s] <= 16} IN
  \/ KraftPart(L, short) > 2 ^ 16
  \/ KraftPart(L, short) = 2 ^ 16 /\ short # DOMAIN L

\* C8: reader validation of the lengths.  For a container with
\* original_size > 0 whose lengths table has Kraft sum above 1, or a length
\* outside [0, HUFF_MAX_CODE_BITS], huffman_decode emits no symbol and
\* returns HUFF_ERROR_BAD_FORMAT.
LengthsValidated ==
  (/\ dpc \in {"tables", "loop", "done"}
   /\ original_size > 0
   /\ \/ KraftOver(dlengths)
      \/ \E s \in DOMAIN dlengths : dlengths[s] \notin 0..HUFF_MAX_CODE_BITS)
  => /\ produced = 0
     /\ dec_out = EmptyFile
     /\ (DecodeDone => dres = "HUFF_ERROR_BAD_FORMAT")

\* C9: bad magic.  When the first 4 bytes of the input are not 'HUF2',
\* huffman_decode returns HUFF_ERROR_BAD_FORMAT and the output file is never
\* created.
BadMagic ==
  (dpc # "idle" /\ (dec_file.len < 4 \/ FRead(dec_file, 0, 4) # MagicHUF2))
  => /\ ~out_created
     /\ dec_out = EmptyFile
     /\ (DecodeDone => dres = "HUFF_ERROR_BAD_FORMAT")

BadMagicWitness ==
  /\ DecodeDone /\ tamper = "magic"
  /\ FRead(dec_file, 0, 4) # MagicHUF2
  /\ dres = "HUFF_ERROR_BAD_FORMAT" /\ ~out_created

\* C10 as stated: removing bytes from the end of the body of the container
\* of any non-empty input makes huffman_decode return HUFF_ERROR_BAD_FORMAT.
TruncatedBodyAny ==
  (DecodeDone /\ tamper = "truncate") => dres = "HUFF_ERROR_BAD_FORMAT"

\* C10, amended: removing bytes from the end of the body of the container of
\* an input with two or more distinct symbols makes huffman_decode return
\* HUFF_ERROR_BAD_FORMAT.
TruncatedBody ==
  (DecodeDone /\ tamper = "truncate" /\ Cardinality(Present(in_file)) >= 2)
  => dres = "HUFF_ERROR_BAD_FORMAT"

TruncatedBodyWitness ==
  /\ DecodeDone /\ tamper = "truncate"
  /\ Cardinality(Present(in_file)) >= 2
  /\ dec_file.len > 268
  /\ produced > 0
  /\ dres = "HUFF_ERROR_BAD_FORMAT"

----
\* Tree builder (TreeSpec)

NodeIdx == 0 .. (Len(nodes) - 1)
IsLeaf(i) == NodeAt(nodes, i).left = -1 /\ NodeAt(nodes, i).right = -1
Parents(i) ==
  {j \in NodeIdx : NodeAt(nodes, j).left = i \/ NodeAt(nodes, j).right = i}
BuiltTree == epc = "collect"

\* C19: for a histogram with n >= 1 non-zero entries _huff_build_tree returns a
\* valid root (never -1); the tree has exactly 2n - 1 <= 511 nodes; its leaves
\* are exactly the symbols with a non-zero count, each once and with that count
\* as weight; every internal node has two children of smaller index and the
\* sum of their weights as weight; the root is the only node without a parent.
TreeShape ==
  /\ epc # "done"
  /\ BuiltTree =>
       LET n == Cardinality(DOMAIN freq) IN
       /\ root \in NodeIdx
       /\ Len(nodes) = 2 * n - 1
       /\ Len(nodes) <= HUFF_MAX_NODES
       /\ Cardinality({i \in NodeIdx : IsLeaf(i)}) = n
       /\ \A s \in DOMAIN freq :
            \E i \in NodeIdx : /\ IsLeaf(i)
                               /\ NodeAt(nodes, i).symbol = s
                               /\ NodeAt(nodes, i).weight = freq[s]
       /\ \A i \in NodeIdx :
            \/ IsLeaf(i)
            \/ LET l == NodeAt(nodes, i).left
                   r == NodeAt(nodes, i).right
               IN /\ l \in 0 .. (i - 1)
                  /\ r \in 0 .. (i - 1)
                  /\ NodeAt(nodes, i).weight =
                       NodeAt(nodes, l).weight + NodeAt(nodes, r).weight
       /\ \A i \in NodeIdx :
            Cardinality(Parents(i)) = IF i = root THEN 0 ELSE 1

TreeShapeWitness ==
  /\ BuiltTree
  /\ Cardinality(DOMAIN freq) = MaxLeaves
  /\ Len(nodes) = 2 * MaxLeaves - 1

\* (weight ascending, then index ascending)
Before(a, b) ==
  \/ NodeAt(nodes, a).weight < NodeAt(nodes, b).weight
  \/ NodeAt(nodes, a).weight = NodeAt(nodes, b).weight /\ a < b
Least(S) == CHOOSE a \in S : \A b \in S \ {a} : Before(a, b)
HeapSet == {heap[k] : k \in 1..Len(heap)}

\* C20: every merge takes the two least entries of the heap under (weight
\* ascending, index ascending): the left child of the new node is the least
\* entry, popped first, and its right child the least of the others.
HeapOrder ==
  [][Len(nodes') = Len(nodes) + 1 /\ epc = "merge" =>
       /\ nodes'[Len(nodes')].left = Least(HeapSet)
       /\ nodes'[Len(nodes')].right = Least(HeapSet \ {Least(HeapSet)})]_vars

\* a merge in which equal weights were ordered by index: three entries of one
\* weight were in the heap when the first internal node was made
HeapOrderWitness ==
  /\ BuiltTree
  /\ \E i \in NodeIdx :
       /\ ~IsLeaf(i)
       /\ \E k \in 0 .. (i - 1) :
            /\ k > NodeAt(nodes, i).right
            /\ IsLeaf(NodeAt(nodes, i).left) /\ IsLeaf(NodeAt(nodes, i).right)
            /\ NodeAt(nodes, k).weight = NodeAt(nodes, NodeAt(nodes, i).right).weight
            /\ NodeAt(nodes, k).weight = NodeAt(nodes, NodeAt(nodes, i).left).weight

----
\* Decoder output

\* C12: whenever huffman_decode returns success the output file holds exactly
\* original_size bytes (the header field), whichever path was taken; the
\* decode loop never produces more than original_size symbols, and what it
\* has produced is what the output file and the staging buffer hold.
ExactCount ==
  /\ dres = "HUFF_SUCCESS" => dec_out.len = original_size
  /\ dpc = "loop" => /\ produced <= original_size
                     /\ produced = dec_out.len + Len(out_buffer)

\* the table-driven path stopped at original_size with symbols left in the
\* body: the size field had been lowered
ExactCountWitness ==
  /\ DecodeDone
  /\ dres = "HUFF_SUCCESS"
  /\ tamper = "size"
  /\ Cardinality(DOMAIN dlengths) >= 2
  /\ 0 < original_size
  /\ original_size < Len(in_file)

----
\* Frequency count

RECURSIVE SumOver(_, _)
SumOver(t, S) ==
  IF S = {} THEN 0
  ELSE LET s == CHOOSE x \in S : TRUE IN t[s] + SumOver(t, S \ {s})

\* _huff_parallel_freq_count has returned
FreqCounted == used_cores > 0 /\ epc \in {"tree", "header"}

\* C16: when _huff_parallel_freq_count returns, F[s] is the number of
\* occurrences of s in the whole buffer for every symbol s (0 for the symbols
\* that do not occur) and the sum of F is size, for every number of workers
\* and every order in which the workers run.
FrequencyCount ==
  FreqCounted =>
    /\ DOMAIN freq = Present(data)
    /\ \A s \in Present(data) : freq[s] = Count(data, s)
    /\ SumOver(freq, DOMAIN freq) = size

\* counted by two or more workers, each with blocks of 8 bytes and a tail
FrequencyCountWitness ==
  /\ FreqCounted
  /\ used_cores >= 2
  /\ size \div used_cores > 8
  /\ (size \div used_cores) % 8 # 0
  /\ Cardinality(Present(data)) >= 2

----
\* Body tampering

\* bit k of the body of container f
BodyBit(f, k) == (FByte(f, 268 + k \div 8) \div (2 ^ (k % 8))) % 2 = 1
\* the container read by huffman_decode differs from the one huffman_encode
\* wrote in one of the code bits (the bits before the padding of the last byte)
CodeBitChanged ==
  \E k \in 0 .. (CodedBits(in_file, wr.file, Present(in_file)) - 1) :
    BodyBit(dec_file, k) # BodyBit(wr.file, k)
BodyTampered == tamper = "body" /\ DecodeDone

\* C11 as stated: with one byte changed in a body of 2 or more bytes
\* huffman_decode either succeeds with an output different from the original
\* input or returns BadFormat, and never crashes.
BodyTamperingAny ==
  BodyTampered /\ BodyLen(wr.file) >= 2 =>
    /\ ~undefined
    /\ \/ dres = "HUFF_ERROR_BAD_FORMAT"
       \/ dres = "HUFF_SUCCESS" /\ FContents(dec_out) # in_file

\* C11 (amended): with one body byte changed huffman_decode returns success or
\* BadFormat and executes nothing undefined; when the input has two or more
\* distinct symbols and a code bit is among the changed bits, it returns
\* BadFormat or succeeds with an output different from the original input.
BodyTampering ==
  BodyTampered =>
    /\ ~undefined
    /\ dres \in {"HUFF_SUCCESS", "HUFF_ERROR_BAD_FORMAT"}
    /\ Cardinality(Present(in_file)) >= 2 /\ CodeBitChanged =>
         \/ dres = "HUFF_ERROR_BAD_FORMAT"
         \/ FContents(dec_out) # in_file

\* bit 7 of the first byte of a body of 2 or more bytes was changed from 0 to
\* 1, and the decoder succeeded
BodyTamperingWitness ==
  /\ BodyTampered
  /\ BodyLen(wr.file) >= 2
  /\ Cardinality(Present(in_file)) >= 2
  /\ BodyBit(dec_file, 7) /\ ~BodyBit(wr.file, 7)
  /\ dres = "HUFF_SUCCESS"

----
\* Statistics

\* C13: after a successful huffman_encode stats.original_size is the size of
\* the input and stats.compressed_size the size of the container; after a
\* successful huffman_decode stats.original_size is the number of bytes
\* written; whatever stats held before, and for empty inputs and
\* single-symbol containers too.
Statistics ==
  /\ EncodeDone /\ dres = "NONE" =>
       /\ stats.original_size = Len(in_file)
       /\ stats.compressed_size = wr.file.len
  /\ DecodeDone /\ dres = "HUFF_SUCCESS" =>
       stats.original_size = dec_out.len

----
\* Resources and failing allocations

EncodeReturned == epc = "done"
DecodeReturned == dpc = "done" /\ dres # "CRASH"

\* C14: on every exit path of huffman_encode and huffman_decode, success and
\* each failure alike, every file handle the call opened has been closed and
\* every buffer it allocated has been freed, each exactly once, and none is
\* used after its release.
ResourceRelease ==
  /\ \A r \in Resources : held[r] \notin {"double", "dangling"}
  /\ EncodeReturned => \A r \in EncResources : held[r] # "live"
  /\ DecodeReturned => \A r \in DecResources : held[r] # "live"

\* huffman_encode returned after a short fread: the image and the input file
\* were released on the way
ResourceReleaseWitness ==
  /\ EncodeReturned
  /\ fault = "in_fread"
  /\ eres = "HUFF_ERROR_FILE_READ"
  /\ held["data"] = "released"
  /\ held["in"] = "released"

\* C15: whenever an allocation fails (the input image, the encoder staging
\* buffer, the decoder output buffer, the bit reader's input buffer) the call
\* returns HUFF_ERROR_MEMORY and does not use the missing buffer.
MemoryError ==
  /\ \A r \in Resources : held[r] # "nulluse"
  /\ EncodeReturned /\ fault \in {"in_malloc", "io_malloc"}
       => eres = "HUFF_ERROR_MEMORY"
  /\ dpc = "done" /\ fault \in {"out_malloc", "reader_malloc"}
       => dres = "HUFF_ERROR_MEMORY"

----
\* Frequency count: threads

\* a thread of the count takes a step: one of the created workers moves on
WorkerStep(w) ==
  /\ w \in 1..Len(workers)
  /\ Len(workers') = Len(workers)
  /\ workers'[w].state # workers[w].state
\* the driver takes worker i's histogram into freq (i = joined, from 0)
DriverReads ==
  /\ epc = "spawn"
  /\ Len(workers) = num_cores
  /\ joined' # joined \/ epc' # epc

\* C17: in every interleaving a worker writes nothing but its own histogram
\* (not freq, not the input, not another worker's arguments or histogram);
\* the driver reads the histogram of worker i only when worker i has
\* completed, which its pthread_join has waited for; and while threads run
\* the input is not written and the arguments of a created thread do not
\* change.
RaceFreedom ==
  [][/\ \A w \in 1..MAX_THREADS :
          WorkerStep(w) =>
            /\ freq' = freq
            /\ data' = data
            /\ \A v \in 1..Len(workers) :
                 /\ v # w => workers'[v] = workers[v]
                 /\ workers'[v].base = workers[v].base
                 /\ workers'[v].size = workers[v].size
     /\ DriverReads => workers[joined + 1].state = "done"
     /\ epc = "spawn" /\ epc' = "spawn" =>
          /\ data' = data
          /\ \A v \in 1..Len(workers) :
               /\ workers'[v].base = workers[v].base
               /\ workers'[v].size = workers[v].size]_vars

\* the driver has taken the histogram of the first worker while another
\* worker is still counting
RaceFreedomWitness ==
  /\ epc = "spawn"
  /\ joined >= 1
  /\ \E w \in 1..Len(workers) : workers[w].state = "tail"

----
\* Overlapping calls

----
\* Single symbol

\* C21: when exactly one symbol is present, huffman_encode gives it the length
\* 1 and the 1-bit code 0.  When the lengths table huffman_decode read has
\* exactly one non-zero entry, of whatever value, and no call of the C library
\* fails, huffman_decode succeeds and writes original_size copies of that
\* symbol; it builds no codes and no tree, and its bit reader never takes a
\* byte of the body.
SingleSymbol ==
  /\ epc \in {"header", "body"} /\ Cardinality(Present(data)) = 1 =>
       \A s \in Present(data) :
         /\ lengths = [x \in {s} |-> 1]
         /\ codes = [x \in {s} |-> [bit_count |-> 1, bits |-> <<0>>]]
  /\ dpc = "done" /\ NoFault /\ Cardinality(DOMAIN dlengths) = 1 =>
       \A s \in DOMAIN dlengths :
         /\ dres = "HUFF_SUCCESS"
         /\ dec_out.len = original_size
         /\ \A p \in 0 .. (original_size - 1) : FByte(dec_out, p) = s
         /\ dcodes = NoCodes
         /\ dnodes = <<>>
         /\ rd = _huff_bit_reader_init

\* a decode of a container whose only non-zero length byte is not 1, with
\* bytes to write
SingleSymbolWitness ==
  /\ dpc = "done"
  /\ dres = "HUFF_SUCCESS"
  /\ original_size >= 2
  /\ \E s \in DOMAIN dlengths : DOMAIN dlengths = {s} /\ dlengths[s] > 1
  /\ Cardinality(Present(in_file)) = 1

----
\* Bit writer

\* the bits a reference writer appends for the symbols S: the stored code of
\* each symbol in input order, bit 0 of each code first
RECURSIVE RefBits(_, _)
RefBits(cs, S) ==
  IF Len(S) = 0 THEN <<>>
  ELSE RefBits(cs, SubSeq(S, 1, Len(S) - 1)) \o CodeOf(cs, S[Len(S)]).bits

\* bit p of the reference stream, 0 past its end
RefBit(bits, p) == IF p < Len(bits) THEN bits[p + 1] ELSE 0

\* byte k of the reference stream: stream bit 8k + j is bit j of the byte
RefByte(bits, k) ==
  RefBit(bits, 8 * k) + 2 * RefBit(bits, 8 * k + 1)
    + 4 * RefBit(bits, 8 * k + 2) + 8 * RefBit(bits, 8 * k + 3)
    + 16 * RefBit(bits, 8 * k + 4) + 32 * RefBit(bits, 8 * k + 5)
    + 64 * RefBit(bits, 8 * k + 6) + 128 * RefBit(bits, 8 * k + 7)

\* the body bytes the writer has emitted so far: written to the file or staged
EmittedLen == wr.file.len - HeaderSize + Len(wr.io)
EmittedByte(k) ==
  IF HeaderSize + k < wr.file.len THEN FByte(wr.file, HeaderSize + k)
  ELSE wr.io[HeaderSize + k - wr.file.len + 1]

\* C22: the bytes of the 64-bit accumulator writer are those of the reference
\* writer.  After each symbol, the bytes emitted followed by the bit_count
\* bits of the accumulator are the reference stream of the symbols written so
\* far; after the final flush the body of the file is the reference stream of
\* the whole input, the rest of its last byte filled with zero bits.
BitWriterEquivalence ==
  /\ epc = "body" =>
       LET ref == RefBits(codes, SubSeq(data, 1, enc_i)) IN
       /\ 8 * EmittedLen + wr.bit_count = Len(ref)
       /\ \A k \in 0 .. (EmittedLen - 1) : EmittedByte(k) = RefByte(ref, k)
       /\ \A j \in 0 .. (wr.bit_count - 1) :
            (j \in wr.bit_buffer) <=> (RefBit(ref, 8 * EmittedLen + j) = 1)
  /\ epc = "done" /\ eres = "HUFF_SUCCESS" /\ run = 1 /\ size > 0 =>
       LET ref == RefBits(codes, data) IN
       /\ wr.io = <<>>
       /\ BodyLen(wr.file) = (Len(ref) + 7) \div 8
       /\ \A k \in 0 .. (BodyLen(wr.file) - 1) :
            FByte(wr.file, HeaderSize + k) = RefByte(ref, k)

\* a finished body in which a code longer than 64 bits (the bit-at-a-time
\* fallback) came after a code that left the accumulator partly filled, and a
\* short code after it
BitWriterWitness ==
  /\ epc = "done" /\ eres = "HUFF_SUCCESS"
  /\ Len(data) = 3
  /\ CodeOf(codes, data[1]).bit_count = 2
  /\ CodeOf(codes, data[2]).bit_count > U64_BITS
  /\ CodeOf(codes, data[3]).bit_count = 2
  /\ data[1] = data[3]
  /\ \E j \in 1..U64_BITS :
       CodeOf(codes, data[2]).bits[j] # CodeOf(codes, data[2]).bits[j + 1]

\* C23: between the symbols of the encoder's loop bit_count is in 0..63 (the
\* accumulator is never left full) and the accumulator has no 1 bit at a
\* position >= bit_count; so the shifts the next symbol makes on the fast
\* path, "fc.bits << bit_count" and, when the code spills,
\* "fc.bits >> (64 - bit_count)", are by less than 64, and so is the
\* "1ULL << bit_count" of the fallback.
BitWriterInvariant ==
  epc = "body" =>
    /\ wr.bit_count \in 0 .. (U64_BITS - 1)
    /\ \A j \in wr.bit_buffer : j < wr.bit_count
    /\ enc_i < size =>
         LET fc == FastCode(CodeOf(codes, data[enc_i + 1])) IN
         /\ fc.len > 0 /\ wr.bit_count + fc.len > U64_BITS =>
              U64_BITS - wr.bit_count \in 0 .. (U64_BITS - 1)
         /\ \A j \in fc.bits : j < fc.len

\* the accumulator just after a 1-bit code filled it to exactly 64 bits: it
\* was flushed, and bit_count is 0 again
BitWriterInvariantWitness ==
  /\ epc = "body"
  /\ enc_i = 2
  /\ CodeOf(codes, data[1]).bit_count = U64_BITS - 1
  /\ CodeOf(codes, data[2]).bit_count = 1
  /\ wr.bit_count = 0
  /\ Len(wr.io) = 8

----
\* Decoder lookup table

\* the number whose bits, lowest first, are the first n bits of a code
RECURSIVE CodeValue(_, _)
CodeValue(bits, n) ==
  IF n = 0 THEN 0 ELSE CodeValue(bits, n - 1) + bits[n] * 2 ^ (n - 1)

\* the symbols whose codes are complete within the table's index bits, and
\* the others
ShortCoded == {s \in DOMAIN dcodes : dcodes[s].bit_count <= HUFF_DEC_TABLE_BITS}
LongCoded == DOMAIN dcodes \ ShortCoded

\* the indices that have the code of s as a prefix, read from bit 0 up
Extending(s) ==
  {CodeValue(dcodes[s].bits, dcodes[s].bit_count) + h * 2 ^ dcodes[s].bit_count :
     h \in 0 .. (2 ^ (HUFF_DEC_TABLE_BITS - dcodes[s].bit_count) - 1)}

\* the leaves of the rebuilt tree below node n
RECURSIVE Below(_)
Below(n) ==
  LET node == NodeAt(dnodes, n) IN
  IF node.left < 0 /\ node.right < 0 THEN {node.symbol}
  ELSE (IF node.left >= 0 THEN Below(node.left) ELSE {})
         \cup (IF node.right >= 0 THEN Below(node.right) ELSE {})

TableBuilt == dpc = "loop" /\ produced = 0 /\ tamper = "made"

\* C24: for a lengths table of huffman_encode with two or more symbols, the
\* table the decoder builds has at every index i that has a complete code of
\* d <= 12 bits as a prefix (read from bit 0 up) the entry {that code's
\* symbol, d, -1}; at every other index the entry {-1, 12, n}, n being an
\* internal node of the rebuilt tree: the one whose leaves are the symbols
\* whose codes begin with the 12 bits of i.
DecoderTable ==
  TableBuilt =>
    /\ \A s \in ShortCoded : \A i \in Extending(s) :
         DecTableEntry(dnodes, i) =
           [symbol |-> s, bits |-> dcodes[s].bit_count, next_node |-> -1]
    /\ \A i \in (0 .. (HUFF_DEC_TABLE_SIZE - 1)) \ UNION {Extending(s) : s \in ShortCoded} :
         LET e == DecTableEntry(dnodes, i) IN
         /\ e.symbol = -1
         /\ e.bits = HUFF_DEC_TABLE_BITS
         /\ e.next_node \in 0 .. (Len(dnodes) - 1)
         /\ NodeAt(dnodes, e.next_node).left >= 0 \/ NodeAt(dnodes, e.next_node).right >= 0
         /\ Below(e.next_node) # {}
         /\ Below(e.next_node) =
              {s \in LongCoded : CodeValue(dcodes[s].bits, HUFF_DEC_TABLE_BITS) = i}

\* a table built for codes of up to 14 bits: some indices have no complete
\* code as a prefix, others a code of exactly 12 bits
DecoderTableWitness ==
  /\ TableBuilt
  /\ Cardinality(LongCoded) >= 3
  /\ \E s \in ShortCoded : dcodes[s].bit_count = HUFF_DEC_TABLE_BITS
  /\ \E s \in ShortCoded : dcodes[s].bit_count = 1

----
\* Bit reader

\* bit_count is in 0..64 and bit_buffer has no 1 bit at or above bit_count
ReaderSound(r) ==
  /\ r.bit_count \in 0 .. U64_BITS
  /\ \A j \in r.bit_buffer : j < r.bit_count

\* C25: between any two operations on the decoder's bit reader (the loads of
\* _huff_bit_reader_ensure, the peek, the consumption of a table entry's
\* bits, the single-bit reads of the slow path), bit_count is in 0..64 and
\* bit_buffer has no 1 bit at or above bit_count; a byte is loaded only at a
\* bit_count of at most 56, so it lands at the bits bit_count..bit_count+7.
\* (As long as the call has executed no undefined behaviour.)
BitReaderInvariant ==
  dpc = "loop" /\ ~undefined =>
    /\ ReaderSound(rd)
    /\ produced < original_size /\ held["reader"] = "live" =>
         /\ \A r \in StepReaders(dec_file, dnodes, rd) : ReaderSound(r)
         /\ \A r \in EnsureReaders(dec_file, rd, HUFF_DEC_TABLE_BITS) :
              r.bit_count < HUFF_DEC_TABLE_BITS /\ r.pos < dec_file.len =>
                r.bit_count + 8 <= U64_BITS

\* the reader after a symbol of more than 12 bits was decoded on the slow
\* path: the table's 12 bits were consumed and the walk read the rest bit by
\* bit, and bits of the last byte remain
BitReaderWitness ==
  /\ dpc = "loop" /\ ~undefined
  /\ produced = 1
  /\ rd.pos = HeaderSize + 2
  /\ rd.bit_count \in 1..3
  /\ rd.bit_buffer # {}
  /\ \E s \in DOMAIN dlengths : dlengths[s] > HUFF_DEC_TABLE_BITS

----
\* Insufficient bits

\* the position in the body's bit stream of the next bit the reader gives
StreamPos(r) == 8 * (r.pos - HeaderSize) - r.bit_count

\* the whole code of s lies in the body at the reader's position
FrontMatches(s) ==
  /\ StreamPos(rd) + dcodes[s].bit_count <= 8 * BodyLen(dec_file)
  /\ \A j \in 0 .. (dcodes[s].bit_count - 1) :
       BodyBit(dec_file, StreamPos(rd) + j) <=> dcodes[s].bits[j + 1] = 1

\* no code of the table is the beginning of another, or equal to it
PrefixFree ==
  \A s, t \in DOMAIN dcodes :
    s # t /\ dcodes[s].bit_count <= dcodes[t].bit_count =>
      \E j \in 1 .. dcodes[s].bit_count : dcodes[s].bits[j] # dcodes[t].bits[j]

\* C26: an iteration of the decode loop that executes nothing undefined emits
\* a symbol only if the whole code of that symbol lies in the body at the
\* reader's position, and then consumes exactly that code; otherwise (the
\* matched table entry needs more bits than there are, a slow-path entry is
\* matched with fewer than 12 bits, the stream ends during the walk)
\* huffman_decode returns BadFormat.  When the codes are prefix-free, a symbol
\* whose whole code lies in the remaining bits is decoded, however few bits
\* remain.
InsufficientBits ==
  [][dpc = "loop" /\ produced < original_size /\ held["reader"] = "live"
       /\ ~undefined' =>
       /\ produced' = produced + 1 =>
            LET s == out_buffer'[Len(out_buffer')] IN
            /\ s \in DOMAIN dcodes
            /\ FrontMatches(s)
            /\ StreamPos(rd') = StreamPos(rd) + dcodes[s].bit_count
       /\ produced' = produced =>
            /\ dpc' = "done"
            /\ dres' = "HUFF_ERROR_BAD_FORMAT"
            /\ PrefixFree => \A s \in DOMAIN dcodes : ~FrontMatches(s)
       /\ PrefixFree /\ (\E s \in DOMAIN dcodes : FrontMatches(s)) =>
            produced' = produced + 1]_vars

\* huffman_decode returned BadFormat after a symbol was decoded, with fewer
\* than 12 bits left that are not the whole of any code
InsufficientBitsWitness ==
  /\ dpc = "done" /\ dres = "HUFF_ERROR_BAD_FORMAT" /\ ~undefined
  /\ tamper = "made"
  /\ produced >= 1
  /\ rd.bit_count \in 1 .. (HUFF_DEC_TABLE_BITS - 1)
  /\ rd.pos = dec_file.len
  /\ PrefixFree

\* the last symbol was decoded from fewer than 12 remaining bits, and the
\* call succeeded
LastSymbolWitness ==
  /\ dpc = "done" /\ dres = "HUFF_SUCCESS" /\ ~undefined
  /\ tamper = "made"
  /\ produced = MaxOut
  /\ rd.pos = dec_file.len
  /\ BodyLen(dec_file) = 1

\* what "while (produced < original_size)" makes of the body of file, started
\* with reader r and n symbols to go: the result and the bytes produced
RECURSIVE DecodeRun(_, _, _, _)
DecodeRun(file, tree, r, n) ==
  IF n = 0 THEN [res |-> "HUFF_SUCCESS", out |-> <<>>]
  ELSE LET step == DecodeStep(file, tree, r) IN
       IF step.status = "emit"
       THEN LET rest == DecodeRun(file, tree, step.rd, n - 1)
            IN IF rest.res = "HUFF_SUCCESS"
               THEN [res |-> rest.res, out |-> <<step.symbol>> \o rest.out]
               ELSE rest
       ELSE [res |-> IF step.status = "bad" THEN "HUFF_ERROR_BAD_FORMAT"
                     ELSE "undefined",
             out |-> <<>>]

\* what huffman_decode makes of a container with the header of dec_file
DecodeBody(file) ==
  IF Unique(dlengths) = 1
  THEN [res |-> "HUFF_SUCCESS",
        out |-> Copies(CHOOSE i \in DOMAIN dlengths : TRUE, original_size)]
  ELSE DecodeRun(file, dnodes, _huff_bit_reader_init, original_size)

\* the first bit of the final body byte that the finished call has not used
PaddingFrom ==
  LET used == IF Unique(dlengths) = 1 THEN 0 ELSE StreamPos(rd)
      start == 8 * (BodyLen(dec_file) - 1)
  IN IF used > start THEN used - start ELSE 0

\* the final body byte with one bit, or every bit, from PaddingFrom on changed
PaddingBytes ==
  LET b == FByte(dec_file, dec_file.len - 1)
      low == b % (2 ^ PaddingFrom)
  IN {IF (b \div (2 ^ k)) % 2 = 1 THEN b - 2 ^ k ELSE b + 2 ^ k :
        k \in PaddingFrom .. 7}
     \cup (IF PaddingFrom <= 7 THEN {low + (255 - b) - ((255 - b) % (2 ^ PaddingFrom))}
           ELSE {})

PaddingVariants ==
  {FSet(dec_file, dec_file.len - 1, v) : v \in PaddingBytes}

DecodedWithPadding ==
  /\ dpc = "done" /\ NoFault /\ ~undefined
  /\ tamper = "made"
  /\ dres = "HUFF_SUCCESS"
  /\ BodyLen(dec_file) >= 1

\* C27: trailing bits ignored.  When huffman_decode has succeeded on a
\* container, every container with the same header and the same body except
\* for bits of the final body byte that the call left unused decodes to the
\* same result and the same output bytes.
TrailingBits ==
  DecodedWithPadding =>
    \A f \in PaddingVariants :
      DecodeBody(f) = [res |-> dres, out |-> FContents(dec_out)]

\* two or more symbols were decoded with the tree in use and the last code
\* ends inside the final byte of a body of two bytes
TrailingBitsWitness ==
  /\ DecodedWithPadding
  /\ Unique(dlengths) >= 2
  /\ produced >= 2
  /\ BodyLen(dec_file) = MaxBody
  /\ PaddingFrom \in 1 .. 7
  /\ PaddingVariants # {}

\* the canonical code value of a stored code: bit j (from 0) of the stored
\* pattern is bit (bit_count - 1 - j) of the value
RECURSIVE StoredValue(_, _)
StoredValue(code, j) ==
  IF j = code.bit_count THEN 0
  ELSE code.bits[j + 1] * 2 ^ (code.bit_count - 1 - j) + StoredValue(code, j + 1)

\* the number of present symbols below s
Rank(s) == Cardinality({t \in DOMAIN freq : t < s})

\* 2^k symbols are present and all have the same frequency
UniformAlphabetOf(k) ==
  /\ Cardinality(DOMAIN freq) = 2 ^ k
  /\ \A s, t \in DOMAIN freq : freq[s] = freq[t]

CodesAssigned == epc = "header" /\ Len(in_file) > 0

\* C28: uniform alphabet.  When 2^k symbols (k >= 1) are present and all have
\* the same frequency, huffman_encode gives every present symbol length k and
\* the i-th present symbol (from 0, in ascending order) the canonical code
\* value i; when all 256 byte values are present with the same frequency every
\* length is 8 and every code value is its symbol.
UniformAlphabet ==
  CodesAssigned =>
    \A k \in 1 .. 8 :
      UniformAlphabetOf(k) =>
        /\ DOMAIN lengths = DOMAIN freq
        /\ DOMAIN codes = DOMAIN freq
        /\ \A s \in DOMAIN freq :
             /\ lengths[s] = k
             /\ codes[s].bit_count = k
             /\ StoredValue(codes[s], 0) = Rank(s)
             /\ (k = 8 => StoredValue(codes[s], 0) = s)

\* all 256 byte values occur MaxWeight times each and have their codes
UniformAlphabetWitness ==
  /\ CodesAssigned
  /\ UniformAlphabetOf(8)
  /\ \A s \in DOMAIN freq : freq[s] = MaxWeight
  /\ lengths[255] = 8
  /\ StoredValue(codes[255], 0) = 255

\* 4 symbols that are not consecutive byte values occur equally often
UniformSparseWitness ==
  /\ CodesAssigned
  /\ UniformAlphabetOf(2)
  /\ DOMAIN freq = {1, 4, 7, 10}
  /\ StoredValue(codes[7], 0) = 2

\* the decoder has built its tables from a hand-made header with two or more
\* non-zero lengths and original_size > 0
TablesFromHeader ==
  /\ tamper = "made"
  /\ dpc = "loop"
  /\ original_size > 0
  /\ Unique(dlengths) >= 2

\* the decode loop is about to run an iteration with its reader allocated
IterationDue ==
  /\ TablesFromHeader
  /\ produced < original_size
  /\ held["reader"] = "live"

\* C29: node index safety on untrusted headers.  For every lengths table read
\* from a container with original_size > 0 and two or more non-zero lengths,
\* and every body, each entry of the decoder's table with symbol = -1 has
\* next_node inside [0, node_count), and the slow path's tree walk never
\* indexes nodes[] with a negative or out-of-range index.
NodeIndexSafety ==
  /\ TablesFromHeader /\ produced = 0 =>
       \A i \in 0 .. (HUFF_DEC_TABLE_SIZE - 1) :
         LET entry == DecTableEntry(dnodes, i) IN
         entry.symbol = -1 => entry.next_node \in 0 .. (Len(dnodes) - 1)
  /\ IterationDue => DecodeStep(dec_file, dnodes, rd).status # "oob"

\* sum of F[s] * L[s] over the present symbols
RECURSIVE EncodedSize(_, _, _)
EncodedSize(F, L, set) ==
  IF set = {} THEN 0
  ELSE LET s == CHOOSE x \in set : TRUE IN
       F[s] * L[s] + EncodedSize(F, L, set \ {s})

\* sum of 2^(m - L[s]) over the symbols of set
RECURSIVE KraftSum(_, _, _)
KraftSum(L, set, m) ==
  IF set = {} THEN 0
  ELSE LET s == CHOOSE x \in set : TRUE IN
       2 ^ (m - L[s]) + KraftSum(L, set \ {s}, m)

\* the length assignments for the present symbols, lengths 1 .. n for n
\* symbols, that satisfy the Kraft inequality
KraftAssignments ==
  LET n == Cardinality(DOMAIN freq) IN
  {L \in [DOMAIN freq -> 1 .. n] : KraftSum(L, DOMAIN freq, n) <= 2 ^ n}

LengthsDerived ==
  /\ epc = "header"
  /\ Cardinality(DOMAIN freq) >= 2

\* C30: optimality.  For every frequency vector with two or more present
\* symbols, the lengths huffman_encode derives from the built tree give a total
\* sum of F[s] * L[s] that no length assignment for the present symbols
\* satisfying the Kraft inequality undercuts.
Optimality ==
  LengthsDerived =>
    /\ DOMAIN lengths = DOMAIN freq
    /\ lengths \in KraftAssignments
    /\ \A L \in KraftAssignments :
         EncodedSize(freq, lengths, DOMAIN freq) <= EncodedSize(freq, L, DOMAIN freq)

\* MaxPresent symbols with different frequencies have lengths that are not all
\* equal, and some assignment satisfying the Kraft inequality costs more
OptimalityWitness ==
  /\ LengthsDerived
  /\ Cardinality(DOMAIN freq) = MaxPresent
  /\ \E s, t \in DOMAIN freq : freq[s] < freq[t] /\ lengths[s] > lengths[t]
  /\ \E L \in KraftAssignments :
       EncodedSize(freq, L, DOMAIN freq) > EncodedSize(freq, lengths, DOMAIN freq)

====
